---- MODULE Spec2Model ----
(***************************************************************************)
(* A model of the LicenseEdict Go SDK client (package licenseedict):       *)
(* token verification, Validate / ValidateFromCache, Renew / RenewResult,  *)
(* background auto-renewal, the heartbeat scheduler, Checkout, Close and   *)
(* the Events channel.                                                     *)
(*                                                                         *)
(* Every goroutine is a process with a program counter pc[p] and locals    *)
(* loc[p].  A handler is cut into steps at the points where it touches     *)
(* shared memory, takes a lock, uses a channel or waits for the network.   *)
(* Time is counted in days.                                                *)
(***************************************************************************)
EXTENDS Integers, Sequences, FiniteSets, TLC

VARIABLES
    cfg,          \* Client.cfg (clientConfig); cfg.serverURL is written by Validate
    license,      \* Client.license (*License, NilLicense when nil)
    signedToken,  \* Client.signedToken
    closed,       \* Client.closed
    hb,           \* Client.hb (heartbeatState) without its mutex
    hbmu,         \* owner of Client.hb.mu, "free" when unlocked
    Events,       \* buffered content of Client.Events
    eventsClosed, \* whether close(c.Events) has run
    cache,        \* the cache file license_cache.json (NoFile when absent)
    now,          \* time.Now(), in days
    pc,           \* program counter of every goroutine
    loc,          \* locals of every goroutine
    loops,        \* the heartbeatLoop goroutines, by the channel pair they were given
    stopClosed,   \* the stopCh channels that are closed
    doneClosed,   \* the doneCh channels that are closed
    panicked,     \* the runtime panic that ended the process, "none" while it runs
    verified,     \* history: the Valid licenses Validate has built, each with the
                  \* day of its temporal checks
    received,     \* history: the events the application has received from Events
    emitted,      \* history: the first MaxEmitted events handed to emitEvent, in order
    calls,        \* number of host calls started so far
    spawns,       \* number of goroutines maybeAutoRenew has started so far
    ticks         \* number of ticker firings so far

vars == <<cfg, license, signedToken, closed, hb, hbmu, Events, eventsClosed,
          cache, now, pc, loc, loops, stopClosed, doneClosed, panicked,
          verified, received, emitted, calls, spawns, ticks>>

hbVars   == <<hb, hbmu, loops, stopClosed, doneClosed, ticks>>
chanVars == <<Events, eventsClosed, panicked, received, emitted>>

----------------------------------------------------------------------------
(* Bounds of the model *)

MaxTime == 2
MaxCalls == 2
MaxSpawns == 2
MaxStarts == 2
MaxTicks == 1
MaxReceives == 2
MaxEmitted == 20

(* Program constants *)

defaultRenewBefore == 7
defaultHeartbeatInterval == 30
eventsChannelSize == 16
StatusOK == 200
StatusTooManyRequests == 429
StatusServerError == 500

----------------------------------------------------------------------------
(* Processes *)

Hosts == {"h1", "h2"}
Autos == {"a1", "a2"}
Procs == Hosts \cup Autos

----------------------------------------------------------------------------
(* Data *)

\* A signed token: base64(signature || json payload).  enc says how the
\* string decodes, signer is the key that made the signature, json whether
\* the payload bytes unmarshal, and iat/exp/url are the payload's
\* issued_at, expires_at and server_url (0 and "" are the zero values).
Tok(enc, signer, json, iat, exp, url) ==
    [enc |-> enc, signer |-> signer, json |-> json, iat |-> iat, exp |-> exp, url |-> url]

EmptyToken == Tok("empty", "none", FALSE, 0, 0, "")

TPerpetual == Tok("ok", "k1", TRUE, 1, 0, "u1")
TShort     == Tok("ok", "k1", TRUE, 1, 1, "u1")
TLong      == Tok("ok", "k1", TRUE, 1, 20, "u2")
TFuture    == Tok("ok", "k1", TRUE, 2, 0, "")
TBadSig    == Tok("ok", "k2", TRUE, 1, 0, "u1")
TBadJSON   == Tok("ok", "k1", FALSE, 0, 0, "")
TBadB64    == Tok("badb64", "none", FALSE, 0, 0, "")
TTooShort  == Tok("short", "none", FALSE, 0, 0, "")

GoodTokens == {TPerpetual, TShort, TLong, TFuture}
BadTokens  == {TBadSig, TBadJSON, TBadB64, TTooShort}
Tokens     == GoodTokens \cup BadTokens

NilLicense == [nil |-> TRUE]

MkLicense(valid, iat, exp, url, tok) ==
    [Valid |-> valid, IssuedAt |-> iat, ExpiresAt |-> exp, ServerURL |-> url,
     SignedToken |-> tok]

NoFile == [absent |-> TRUE]

\* verifyToken: base64 decode, length check, ed25519.Verify, json.Unmarshal.
verifyTokenUnsigned(pubKey, tok) ==
    IF tok.enc = "badb64" THEN [err |-> "LicenseDecodeError", payload |-> EmptyToken]
    ELSE IF tok.enc # "ok" THEN [err |-> "LicenseDecodeError", payload |-> EmptyToken]
    ELSE IF ~tok.json THEN [err |-> "LicenseDecodeError", payload |-> EmptyToken]
    ELSE [err |-> "nil", payload |-> tok]

verifyTokenOneCode(pubKey, tok) ==
    IF tok.enc # "ok" \/ tok.signer # pubKey \/ ~tok.json
    THEN [err |-> "LicenseDecodeError", payload |-> EmptyToken]
    ELSE [err |-> "nil", payload |-> tok]

verifyToken(pubKey, tok) ==
    IF tok.enc = "badb64" THEN [err |-> "LicenseDecodeError", payload |-> EmptyToken]
    ELSE IF tok.enc # "ok" THEN [err |-> "LicenseDecodeError", payload |-> EmptyToken]
    ELSE IF tok.signer # pubKey THEN [err |-> "InvalidLicenseSignature", payload |-> EmptyToken]
    ELSE IF ~tok.json THEN [err |-> "LicenseDecodeError", payload |-> EmptyToken]
    ELSE [err |-> "nil", payload |-> tok]

payloadToLicense(p, tok, valid) == MkLicense(valid, p.iat, p.exp, p.url, tok)

\* The temporal checks of Validate: each can only clear Valid.
temporalChecksNoExpiry(lic, p, t) ==
    LET l1 == IF p.iat # 0 /\ t < p.iat THEN [lic EXCEPT !.Valid = FALSE] ELSE lic
    IN  l1

temporalChecks(lic, p, t) ==
    LET l1 == IF p.iat # 0 /\ t < p.iat THEN [lic EXCEPT !.Valid = FALSE] ELSE lic
        l2 == IF p.exp # 0 /\ t > p.exp THEN [l1 EXCEPT !.Valid = FALSE] ELSE l1
    IN  l2

\* json.Marshal / json.Unmarshal of a License (the cache file's document).
jsonMarshal(lic) ==
    [valid |-> lic.Valid, issued_at |-> lic.IssuedAt, expires_at |-> lic.ExpiresAt,
     server_url |-> lic.ServerURL, signed_token |-> lic.SignedToken]

jsonUnmarshal(doc) ==
    MkLicense(doc.valid, doc.issued_at, doc.expires_at, doc.server_url, doc.signed_token)

\* cacheManager.save: the file after save(lic); nothing is written when disabled.
cacheSave(disabled, file, lic) ==
    IF disabled THEN file ELSE jsonMarshal(lic)

\* cacheManager.load: (license, err).
cacheLoad(disabled, file) ==
    IF disabled THEN [lic |-> NilLicense, err |-> "NotExist"]
    ELSE IF file = NoFile THEN [lic |-> NilLicense, err |-> "NotExist"]
    ELSE [lic |-> jsonUnmarshal(file), err |-> "nil"]

\* Client.resolveServerURL
resolveServerURL ==
    IF cfg.serverURL # "" THEN cfg.serverURL
    ELSE IF license # NilLicense THEN license.ServerURL
    ELSE ""

----------------------------------------------------------------------------
(* Configuration *)

MkCfg(key, tok, url, noCache, noAuto, offline, renewBefore, onRenew, hbInt) ==
    [publicKey |-> key, token |-> tok, serverURL |-> url, disableCache |-> noCache,
     disableAutoRenew |-> noAuto, offlineOnly |-> offline, renewBefore |-> renewBefore,
     onRenew |-> onRenew, heartbeatInterval |-> hbInt]

Configs ==
    { MkCfg("k1", EmptyToken, "", FALSE, FALSE, FALSE, 0, TRUE, 0),
      MkCfg("k1", TShort, "u0", FALSE, FALSE, FALSE, 0, TRUE, 0),
      MkCfg("k1", EmptyToken, "", TRUE, FALSE, FALSE, 0, TRUE, 0),
      MkCfg("nil", TLong, "u0", FALSE, FALSE, FALSE, 0, TRUE, 0) }

----------------------------------------------------------------------------
(* Locals of a goroutine *)

\* op: the exported method the goroutine runs; arg: the token argument of
\* Validate; token: the token Validate resolved; lic: Validate's license;
\* url, sent: the server URL and the token of the request in flight;
\* result: RenewalResult.SignedToken; vlic, verr: what the Validate called
\* by Renew returned ("skipped" when Renew did not call it); caller: who
\* called Validate or StopHeartbeat; gen: the stop/done channel pair
\* StopHeartbeat works on; retLic, retRes, retErr: the returned values;
\* retCause: the error a returned ValidationError wraps; status, herr: the
\* status code and the error postJSON returned.
Locals0 ==
    [op |-> "none", arg |-> EmptyToken, token |-> EmptyToken, lic |-> NilLicense,
     url |-> "", sent |-> EmptyToken, result |-> EmptyToken, vlic |-> NilLicense,
     verr |-> "nil", caller |-> "host", gen |-> 0, retLic |-> NilLicense,
     retRes |-> EmptyToken, retErr |-> "nil", retCause |-> "nil",
     status |-> 0, herr |-> "nil"]

Alive == panicked = "none"

Event(type, data) == [Type |-> type, Data |-> data]

\* The history of the events handed to emitEvent.
Recorded(h, e) == IF Len(h) < MaxEmitted THEN Append(h, e) ELSE h

\* Client.emitEvent: a non-blocking send; a send on a closed channel panics.
emitEventUnbounded(e) ==
    IF eventsClosed
    THEN /\ panicked' = "send on closed channel"
         /\ UNCHANGED <<Events, eventsClosed, received, emitted>>
    ELSE /\ Events' = Append(Events, e)
         /\ emitted' = Recorded(emitted, e)
         /\ UNCHANGED <<eventsClosed, panicked, received>>

emitEvent(e) ==
    IF eventsClosed
    THEN /\ panicked' = "send on closed channel"
         /\ UNCHANGED <<Events, eventsClosed, received, emitted>>
    ELSE /\ Events' = IF Len(Events) < eventsChannelSize THEN Append(Events, e) ELSE Events
         /\ emitted' = Recorded(emitted, e)
         /\ UNCHANGED <<eventsClosed, panicked, received>>

\* The pc a method returns to: the goroutine started by maybeAutoRenew goes on
\* to its callback, a host call is done.
AfterReturn(l) == IF l.op = "AutoRenew" THEN "a_cb" ELSE "done"

----------------------------------------------------------------------------
(* Validate *)

\* Validate up to the end of the temporal checks (validate.go 19-65):
\* kind "ret" is an early return of (lic, err), kind "go" carries on to the
\* commit with the license built from the verified payload.
validateCheckNoFallback(arg) ==
    LET token == IF arg # EmptyToken THEN arg
                 ELSE IF signedToken # EmptyToken THEN signedToken
                 ELSE cfg.token
        v == verifyToken(cfg.publicKey, token)
    IN  IF closed
        THEN [kind |-> "ret", lic |-> NilLicense, err |-> "ErrClientClosed", token |-> EmptyToken]
        ELSE IF token = EmptyToken
        THEN [kind |-> "ret", lic |-> NilLicense, err |-> "ErrNoToken", token |-> token]
        ELSE IF cfg.publicKey = "nil"
        THEN [kind |-> "ret", lic |-> NilLicense, err |-> "ErrNoPublicKey", token |-> token]
        ELSE IF v.err # "nil"
        THEN [kind |-> "ret", lic |-> NilLicense, err |-> v.err, token |-> token]
        ELSE [kind |-> "go",
              lic |-> temporalChecks(payloadToLicense(v.payload, token, TRUE), v.payload, now),
              err |-> "nil", token |-> token]

validateCheckConfigFirst(arg) ==
    LET token == IF arg # EmptyToken THEN arg
                 ELSE IF cfg.token # EmptyToken THEN cfg.token
                 ELSE signedToken
        v == verifyToken(cfg.publicKey, token)
        c == cacheLoad(cfg.disableCache, cache)
    IN  IF closed
        THEN [kind |-> "ret", lic |-> NilLicense, err |-> "ErrClientClosed", token |-> EmptyToken]
        ELSE IF token = EmptyToken
        THEN [kind |-> "ret", lic |-> NilLicense, err |-> "ErrNoToken", token |-> token]
        ELSE IF cfg.publicKey = "nil"
        THEN [kind |-> "ret", lic |-> NilLicense, err |-> "ErrNoPublicKey", token |-> token]
        ELSE IF v.err # "nil"
        THEN IF c.err = "nil" /\ c.lic # NilLicense
             THEN [kind |-> "ret", lic |-> c.lic, err |-> "nil", token |-> token]
             ELSE [kind |-> "ret", lic |-> NilLicense, err |-> v.err, token |-> token]
        ELSE [kind |-> "go",
              lic |-> temporalChecks(payloadToLicense(v.payload, token, TRUE), v.payload, now),
              err |-> "nil", token |-> token]

validateCheck(arg) ==
    LET token == IF arg # EmptyToken THEN arg
                 ELSE IF signedToken # EmptyToken THEN signedToken
                 ELSE cfg.token
        v == verifyToken(cfg.publicKey, token)
        c == cacheLoad(cfg.disableCache, cache)
    IN  IF closed
        THEN [kind |-> "ret", lic |-> NilLicense, err |-> "ErrClientClosed", token |-> EmptyToken]
        ELSE IF token = EmptyToken
        THEN [kind |-> "ret", lic |-> NilLicense, err |-> "ErrNoToken", token |-> token]
        ELSE IF cfg.publicKey = "nil"
        THEN [kind |-> "ret", lic |-> NilLicense, err |-> "ErrNoPublicKey", token |-> token]
        ELSE IF v.err # "nil"
        THEN IF c.err = "nil" /\ c.lic # NilLicense
             THEN [kind |-> "ret", lic |-> c.lic, err |-> "nil", token |-> token]
             ELSE [kind |-> "ret", lic |-> NilLicense, err |-> v.err, token |-> token]
        ELSE [kind |-> "go",
              lic |-> temporalChecks(payloadToLicense(v.payload, token, TRUE), v.payload, now),
              err |-> "nil", token |-> token]

\* Validate, lines 19-70, run by p with argument arg; l0 holds p's locals
\* at the call.
ValidateBodyLastURL(p, arg, l0) ==
    LET r == validateCheck(arg)
        l == [l0 EXCEPT !.arg = arg, !.token = r.token, !.lic = r.lic]
    IN  IF r.kind = "go"
        THEN /\ pc' = [pc EXCEPT ![p] = "v_commit"]
             /\ loc' = [loc EXCEPT ![p] = l]
             /\ cfg' = IF r.lic.ServerURL # ""
                       THEN [cfg EXCEPT !.serverURL = r.lic.ServerURL]
                       ELSE cfg
             /\ verified' = IF r.lic.Valid
                            THEN verified \cup {[lic |-> r.lic, at |-> now]}
                            ELSE verified
        ELSE /\ IF l.caller = "host"
                THEN /\ pc' = [pc EXCEPT ![p] = "done"]
                     /\ loc' = [loc EXCEPT ![p] = [l EXCEPT !.retLic = r.lic, !.retErr = r.err]]
                ELSE /\ pc' = [pc EXCEPT ![p] = "r_after"]
                     /\ loc' = [loc EXCEPT ![p] = [l EXCEPT !.vlic = r.lic, !.verr = r.err]]
             /\ UNCHANGED <<cfg, verified>>

ValidateBody(p, arg, l0) ==
    LET r == validateCheck(arg)
        l == [l0 EXCEPT !.arg = arg, !.token = r.token, !.lic = r.lic]
    IN  IF r.kind = "go"
        THEN /\ pc' = [pc EXCEPT ![p] = "v_commit"]
             /\ loc' = [loc EXCEPT ![p] = l]
             /\ cfg' = IF cfg.serverURL = "" /\ r.lic.ServerURL # ""
                       THEN [cfg EXCEPT !.serverURL = r.lic.ServerURL]
                       ELSE cfg
             /\ verified' = IF r.lic.Valid
                            THEN verified \cup {[lic |-> r.lic, at |-> now]}
                            ELSE verified
        ELSE /\ IF l.caller = "host"
                THEN /\ pc' = [pc EXCEPT ![p] = "done"]
                     /\ loc' = [loc EXCEPT ![p] = [l EXCEPT !.retLic = r.lic, !.retErr = r.err]]
                ELSE /\ pc' = [pc EXCEPT ![p] = "r_after"]
                     /\ loc' = [loc EXCEPT ![p] = [l EXCEPT !.vlic = r.lic, !.verr = r.err]]
             /\ UNCHANGED <<cfg, verified>>

\* A host goroutine calls c.Validate(arg); arg = EmptyToken is Validate().
Validate(t) ==
    /\ Alive
    /\ pc[t] = "idle"
    /\ calls < MaxCalls
    /\ calls' = calls + 1
    /\ \E arg \in Tokens \cup {EmptyToken} :
          ValidateBody(t, arg, [Locals0 EXCEPT !.op = "Validate"])
    /\ UNCHANGED <<license, signedToken, closed, cache, now, spawns, hbVars, chanVars>>

\* Validate, lines 72-76: the commit under c.mu.
ValidateCommitLicenseOnly(p) ==
    /\ Alive
    /\ pc[p] = "v_commit"
    /\ license' = loc[p].lic
    /\ pc' = [pc EXCEPT ![p] = "v_save"]
    /\ UNCHANGED <<cfg, signedToken, closed, cache, now, verified, loc, calls, spawns,
                   hbVars, chanVars>>

ValidateCommit(p) ==
    /\ Alive
    /\ pc[p] = "v_commit"
    /\ license' = loc[p].lic
    /\ signedToken' = loc[p].token
    /\ pc' = [pc EXCEPT ![p] = "v_save"]
    /\ UNCHANGED <<cfg, closed, cache, now, verified, loc, calls, spawns, hbVars, chanVars>>

\* maybeAutoRenew's decision (validate.go 111-127).
shouldAutoRenewAnyValidity(lic) ==
    /\ ~(cfg.disableAutoRenew \/ cfg.offlineOnly)
    /\ lic # NilLicense
    /\ lic.ExpiresAt # 0
    /\ LET threshold == IF cfg.renewBefore = 0 THEN defaultRenewBefore ELSE cfg.renewBefore
       IN  ~(lic.ExpiresAt - now > threshold)

shouldAutoRenewStrict(lic) ==
    /\ ~(cfg.disableAutoRenew \/ cfg.offlineOnly)
    /\ lic # NilLicense
    /\ lic.Valid
    /\ lic.ExpiresAt # 0
    /\ LET threshold == IF cfg.renewBefore = 0 THEN defaultRenewBefore ELSE cfg.renewBefore
       IN  lic.ExpiresAt - now < threshold

shouldAutoRenew(lic) ==
    /\ ~(cfg.disableAutoRenew \/ cfg.offlineOnly)
    /\ lic # NilLicense
    /\ lic.Valid
    /\ lic.ExpiresAt # 0
    /\ LET threshold == IF cfg.renewBefore = 0 THEN defaultRenewBefore ELSE cfg.renewBefore
       IN  ~(lic.ExpiresAt - now > threshold)

FreeAuto == CHOOSE a \in Autos : pc[a] = "free"

\* Validate, lines 78-84: cache.save, maybeAutoRenew (which may start the
\* renewal goroutine) and the return.
SaveAndLaunch(p, counted) ==
    /\ Alive
    /\ pc[p] = "v_save"
    /\ cache' = cacheSave(cfg.disableCache, cache, loc[p].lic)
    /\ LET l == loc[p]
           mine == IF l.caller = "host"
                   THEN [l EXCEPT !.retLic = l.lic, !.retErr = "nil"]
                   ELSE [l EXCEPT !.vlic = l.lic, !.verr = "nil"]
           next == IF l.caller = "host" THEN "done" ELSE "r_after"
       IN  IF shouldAutoRenew(l.lic)
           THEN /\ counted => spawns < MaxSpawns
                /\ \E a \in Autos : pc[a] = "free"
                /\ spawns' = IF counted THEN spawns + 1 ELSE spawns
                /\ pc' = [pc EXCEPT ![p] = next, ![FreeAuto] = "r_start"]
                /\ loc' = [loc EXCEPT ![p] = mine,
                                      ![FreeAuto] = [Locals0 EXCEPT !.op = "AutoRenew"]]
           ELSE /\ pc' = [pc EXCEPT ![p] = next]
                /\ loc' = [loc EXCEPT ![p] = mine]
                /\ UNCHANGED spawns
    /\ UNCHANGED <<cfg, license, signedToken, closed, now, verified, calls, hbVars, chanVars>>

\* The launches of renewal goroutines are counted against MaxSpawns.
ValidateSave(p) == SaveAndLaunch(p, TRUE)

\* The same with no limit on the number of launches.
ValidateSaveOn(p) == SaveAndLaunch(p, FALSE)

\* ValidateFromCache (validate.go 89-107).
ValidateFromCacheNoCommit(t) ==
    /\ Alive
    /\ pc[t] = "idle"
    /\ calls < MaxCalls
    /\ calls' = calls + 1
    /\ pc' = [pc EXCEPT ![t] = "done"]
    /\ LET c == cacheLoad(cfg.disableCache, cache)
           l == [Locals0 EXCEPT !.op = "ValidateFromCache"]
       IN  IF closed
           THEN loc' = [loc EXCEPT ![t] = [l EXCEPT !.retErr = "ErrClientClosed"]]
           ELSE IF c.err # "nil"
           THEN loc' = [loc EXCEPT ![t] = [l EXCEPT !.retErr = c.err]]
           ELSE loc' = [loc EXCEPT ![t] = [l EXCEPT !.retLic = c.lic]]
    /\ UNCHANGED <<cfg, license, signedToken, closed, cache, now, verified, spawns,
                   hbVars, chanVars>>

ValidateFromCache(t) ==
    /\ Alive
    /\ pc[t] = "idle"
    /\ calls < MaxCalls
    /\ calls' = calls + 1
    /\ pc' = [pc EXCEPT ![t] = "done"]
    /\ LET c == cacheLoad(cfg.disableCache, cache)
           l == [Locals0 EXCEPT !.op = "ValidateFromCache"]
       IN  IF closed
           THEN /\ loc' = [loc EXCEPT ![t] = [l EXCEPT !.retErr = "ErrClientClosed"]]
                /\ UNCHANGED <<license, signedToken>>
           ELSE IF c.err # "nil"
           THEN /\ loc' = [loc EXCEPT ![t] = [l EXCEPT !.retErr = c.err]]
                /\ UNCHANGED <<license, signedToken>>
           ELSE /\ license' = c.lic
                /\ signedToken' = IF c.lic.SignedToken # EmptyToken
                                  THEN c.lic.SignedToken ELSE signedToken
                /\ loc' = [loc EXCEPT ![t] = [l EXCEPT !.retLic = c.lic]]
    /\ UNCHANGED <<cfg, closed, cache, now, verified, spawns, hbVars, chanVars>>

----------------------------------------------------------------------------
(* Renew and RenewResult *)

\* What postJSON returns for the renewal request: a transport error, a
\* status whose body could not be decoded, or a status and, on 200, the
\* signed_token of the body.
ServerTokens == {EmptyToken, TShort, TLong, TBadSig}

RenewResponses ==
    {[err |-> TRUE, status |-> 0, token |-> EmptyToken],
     [err |-> TRUE, status |-> StatusServerError, token |-> EmptyToken],
     [err |-> FALSE, status |-> StatusServerError, token |-> EmptyToken]}
    \cup {[err |-> FALSE, status |-> StatusOK, token |-> t] : t \in ServerTokens}

\* Renew / RenewResult up to the request (renewal.go 13-39, 75-101).
renewCheck ==
    LET token == IF signedToken # EmptyToken THEN signedToken ELSE cfg.token
    IN  IF closed THEN [err |-> "ErrClientClosed", url |-> "", token |-> EmptyToken]
        ELSE IF resolveServerURL = "" THEN [err |-> "ErrNoServerURL", url |-> "", token |-> EmptyToken]
        ELSE IF token = EmptyToken THEN [err |-> "ErrNoToken", url |-> resolveServerURL, token |-> token]
        ELSE [err |-> "nil", url |-> resolveServerURL, token |-> token]

RenewBody(p, l0) ==
    LET r == renewCheck
    IN  IF r.err # "nil"
        THEN /\ pc' = [pc EXCEPT ![p] = AfterReturn(l0)]
             /\ loc' = [loc EXCEPT ![p] = [l0 EXCEPT !.retErr = r.err]]
        ELSE /\ pc' = [pc EXCEPT ![p] = "r_http"]
             /\ loc' = [loc EXCEPT ![p] = [l0 EXCEPT !.url = r.url, !.sent = r.token]]

\* A host goroutine calls c.Renew().
Renew(t) ==
    /\ Alive
    /\ pc[t] = "idle"
    /\ calls < MaxCalls
    /\ calls' = calls + 1
    /\ RenewBody(t, [Locals0 EXCEPT !.op = "Renew"])
    /\ UNCHANGED <<cfg, license, signedToken, closed, cache, now, verified, spawns, hbVars, chanVars>>

\* A host goroutine calls c.RenewResult().
RenewResult(t) ==
    /\ Alive
    /\ pc[t] = "idle"
    /\ calls < MaxCalls
    /\ calls' = calls + 1
    /\ RenewBody(t, [Locals0 EXCEPT !.op = "RenewResult"])
    /\ UNCHANGED <<cfg, license, signedToken, closed, cache, now, verified, spawns, hbVars, chanVars>>

\* The goroutine of maybeAutoRenew starts its c.Renew() (validate.go 130-131).
AutoRenewStart(a) ==
    /\ Alive
    /\ pc[a] = "r_start"
    /\ RenewBody(a, loc[a])
    /\ UNCHANGED <<cfg, license, signedToken, closed, cache, now, verified, calls, spawns, hbVars, chanVars>>

\* The tests of postJSON's results (renewal.go 40-46, 102-108).
renewFailedOnErrorOnly(resp) == resp.err

renewFailed(resp) == resp.err \/ resp.status # StatusOK

\* The error postJSON returned (http.go 54-69).
postError(resp) ==
    IF ~resp.err THEN "nil" ELSE IF resp.status = 0 THEN "transport" ELSE "decode"

\* postJSON returns (renewal.go 39-50, 101-112).
RenewResponse(p) ==
    /\ Alive
    /\ pc[p] = "r_http"
    /\ \E resp \in RenewResponses :
          LET l == [loc[p] EXCEPT !.status = resp.status, !.herr = postError(resp)] IN
          IF renewFailed(resp)
          THEN /\ pc' = [pc EXCEPT ![p] = AfterReturn(l)]
               /\ loc' = [loc EXCEPT ![p] =
                            [l EXCEPT !.retErr = "RenewalFailed",
                                      !.retCause = postError(resp)]]
          ELSE IF resp.token # EmptyToken /\ cfg.publicKey # "nil"
          THEN /\ pc' = [pc EXCEPT ![p] = "r_validate"]
               /\ loc' = [loc EXCEPT ![p] = [l EXCEPT !.result = resp.token, !.caller = "renew"]]
          ELSE /\ pc' = [pc EXCEPT ![p] = "r_after"]
               /\ loc' = [loc EXCEPT ![p] = [l EXCEPT !.result = resp.token, !.verr = "skipped"]]
    /\ UNCHANGED <<cfg, license, signedToken, closed, cache, now, verified, calls, spawns, hbVars, chanVars>>

\* c.Validate(result.SignedToken) called by Renew / RenewResult.
RenewValidate(p) ==
    /\ Alive
    /\ pc[p] = "r_validate"
    /\ ValidateBody(p, loc[p].result, loc[p])
    /\ UNCHANGED <<license, signedToken, closed, cache, now, calls, spawns, hbVars, chanVars>>

\* After the re-validation (renewal.go 51-68, 113-118): the LicenseRenewed
\* event and the return, or Renew's fallback that stores the new token.
RenewAfterNoStore(p) ==
    /\ Alive
    /\ pc[p] = "r_after"
    /\ pc' = [pc EXCEPT ![p] = AfterReturn(loc[p])]
    /\ LET l == loc[p]
           revalidated == l.verr = "nil" /\ l.vlic.Valid
       IN  IF revalidated
           THEN /\ emitEvent(Event("LicenseRenewed", l.result))
                /\ loc' = [loc EXCEPT ![p] =
                             IF l.op = "RenewResult"
                             THEN [l EXCEPT !.retRes = l.result, !.retErr = "nil"]
                             ELSE [l EXCEPT !.retLic = l.vlic, !.retErr = "nil"]]
           ELSE IF l.op = "RenewResult"
           THEN /\ loc' = [loc EXCEPT ![p] = [l EXCEPT !.retRes = l.result, !.retErr = "nil"]]
                /\ UNCHANGED chanVars
           ELSE /\ loc' = [loc EXCEPT ![p] =
                             [l EXCEPT !.retLic = MkLicense(FALSE, 0, 0, "", l.result),
                                       !.retErr = "nil"]]
                /\ UNCHANGED chanVars
    /\ UNCHANGED <<cfg, license, signedToken, closed, cache, now, verified, calls, spawns,
                   hbVars>>

RenewAfterAlwaysStore(p) ==
    /\ Alive
    /\ pc[p] = "r_after"
    /\ pc' = [pc EXCEPT ![p] = AfterReturn(loc[p])]
    /\ LET l == loc[p]
           revalidated == l.verr = "nil" /\ l.vlic.Valid
       IN  IF revalidated
           THEN /\ emitEvent(Event("LicenseRenewed", l.result))
                /\ loc' = [loc EXCEPT ![p] =
                             IF l.op = "RenewResult"
                             THEN [l EXCEPT !.retRes = l.result, !.retErr = "nil"]
                             ELSE [l EXCEPT !.retLic = l.vlic, !.retErr = "nil"]]
                /\ UNCHANGED signedToken
           ELSE /\ signedToken' = IF l.result # EmptyToken THEN l.result ELSE signedToken
                /\ loc' = [loc EXCEPT ![p] =
                             IF l.op = "RenewResult"
                             THEN [l EXCEPT !.retRes = l.result, !.retErr = "nil"]
                             ELSE [l EXCEPT !.retLic = MkLicense(FALSE, 0, 0, "", l.result),
                                            !.retErr = "nil"]]
                /\ UNCHANGED chanVars
    /\ UNCHANGED <<cfg, license, closed, cache, now, verified, calls, spawns, hbVars>>

RenewAfter(p) ==
    /\ Alive
    /\ pc[p] = "r_after"
    /\ pc' = [pc EXCEPT ![p] = AfterReturn(loc[p])]
    /\ LET l == loc[p]
           revalidated == l.verr = "nil" /\ l.vlic.Valid
       IN  IF revalidated
           THEN /\ emitEvent(Event("LicenseRenewed", l.result))
                /\ loc' = [loc EXCEPT ![p] =
                             IF l.op = "RenewResult"
                             THEN [l EXCEPT !.retRes = l.result, !.retErr = "nil"]
                             ELSE [l EXCEPT !.retLic = l.vlic, !.retErr = "nil"]]
                /\ UNCHANGED signedToken
           ELSE IF l.op = "RenewResult"
           THEN /\ loc' = [loc EXCEPT ![p] = [l EXCEPT !.retRes = l.result, !.retErr = "nil"]]
                /\ UNCHANGED <<signedToken, chanVars>>
           ELSE /\ signedToken' = IF l.result # EmptyToken THEN l.result ELSE signedToken
                /\ loc' = [loc EXCEPT ![p] =
                             [l EXCEPT !.retLic = MkLicense(FALSE, 0, 0, "", l.result),
                                       !.retErr = "nil"]]
                /\ UNCHANGED chanVars
    /\ UNCHANGED <<cfg, license, closed, cache, now, verified, calls, spawns, hbVars>>

\* The end of maybeAutoRenew's goroutine (validate.go 132-138): at
\* "a_onrenew" the callback c.cfg.onRenew(result) runs with loc[a].retLic.
AutoRenewCallback(a) ==
    /\ Alive
    /\ pc[a] = "a_cb"
    /\ IF loc[a].retErr = "nil" /\ cfg.onRenew /\ loc[a].retLic # NilLicense
       THEN /\ pc' = [pc EXCEPT ![a] = "a_onrenew"]
            /\ UNCHANGED loc
       ELSE /\ pc' = [pc EXCEPT ![a] = "free"]
            /\ loc' = [loc EXCEPT ![a] = Locals0]
    /\ UNCHANGED <<cfg, license, signedToken, closed, cache, now, verified, calls, spawns, hbVars, chanVars>>

\* The callback returns and the goroutine ends.
AutoRenewEnd(a) ==
    /\ Alive
    /\ pc[a] = "a_onrenew"
    /\ pc' = [pc EXCEPT ![a] = "free"]
    /\ loc' = [loc EXCEPT ![a] = Locals0]
    /\ UNCHANGED <<cfg, license, signedToken, closed, cache, now, verified, calls, spawns, hbVars, chanVars>>

----------------------------------------------------------------------------
(* The heartbeat scheduler, Checkout and Close *)

\* What postJSON returns for a heartbeat: a transport error, a status
\* whose body could not be decoded, or a status with the
\* heartbeat_interval of the body (in seconds).
HeartbeatResponses ==
    {[err |-> TRUE, status |-> 0, interval |-> 0],
     [err |-> TRUE, status |-> StatusTooManyRequests, interval |-> 0]}
    \cup {[err |-> FALSE, status |-> st, interval |-> 0] :
            st \in {StatusOK, StatusTooManyRequests, StatusServerError}}
    \cup {[err |-> FALSE, status |-> StatusOK, interval |-> 60]}

\* What deleteJSON returns for the checkout: a transport error, a status
\* whose body could not be decoded, or a status.
CheckoutResponses ==
    {[err |-> TRUE, status |-> 0],
     [err |-> TRUE, status |-> StatusOK],
     [err |-> FALSE, status |-> StatusOK],
     [err |-> FALSE, status |-> StatusServerError]}

NoResponse == [err |-> FALSE, status |-> 0, interval |-> 0]

\* resp: what postJSON returned to the loop's last sendHeartbeat.
Loop0 ==
    [pc |-> "none", url |-> "", token |-> EmptyToken, period |-> 0, newInterval |-> 0,
     resp |-> NoResponse]

\* The channel pair the next StartHeartbeat makes.
NewGen == 1 + Cardinality({g \in DOMAIN loops : loops[g].pc # "none"})

LiveLoops == {g \in DOMAIN loops : loops[g].pc \notin {"none", "exited"}}

\* StartHeartbeat, line 44: the check of c.closed, made before hb.mu is taken.
StartHeartbeat(t) ==
    /\ Alive
    /\ pc[t] = "idle"
    /\ calls < MaxCalls
    /\ calls' = calls + 1
    /\ LET l == [Locals0 EXCEPT !.op = "StartHeartbeat"]
       IN  IF closed
           THEN /\ pc' = [pc EXCEPT ![t] = "done"]
                /\ loc' = [loc EXCEPT ![t] = [l EXCEPT !.retErr = "ErrClientClosed"]]
           ELSE /\ pc' = [pc EXCEPT ![t] = "s_lock"]
                /\ loc' = [loc EXCEPT ![t] = l]
    /\ UNCHANGED <<cfg, license, signedToken, closed, cache, now, verified, spawns, hbVars, chanVars>>

\* StartHeartbeat, lines 48-92, all under hb.mu: the checks, the new
\* channels and the launch of heartbeatLoop.
startCheckNoToken ==
    IF hb.running THEN "ErrAlreadyRunning"
    ELSE IF resolveServerURL = "" THEN "ErrNoServerURL"
    ELSE "nil"

startCheckNoRunning ==
    LET token == IF signedToken # EmptyToken THEN signedToken ELSE cfg.token
    IN  IF resolveServerURL = "" THEN "ErrNoServerURL"
        ELSE IF token = EmptyToken THEN "ErrNoToken"
        ELSE "nil"

startCheck ==
    LET token == IF signedToken # EmptyToken THEN signedToken ELSE cfg.token
    IN  IF hb.running THEN "ErrAlreadyRunning"
        ELSE IF resolveServerURL = "" THEN "ErrNoServerURL"
        ELSE IF token = EmptyToken THEN "ErrNoToken"
        ELSE "nil"

StartHeartbeatLocked(t) ==
    /\ Alive
    /\ pc[t] = "s_lock"
    /\ hbmu = "free"
    /\ pc' = [pc EXCEPT ![t] = "done"]
    /\ loc' = [loc EXCEPT ![t].retErr = startCheck]
    /\ IF startCheck # "nil"
       THEN UNCHANGED <<hb, loops>>
       ELSE /\ NewGen <= MaxStarts
            /\ hb' = [running |-> TRUE,
                      interval |-> IF cfg.heartbeatInterval = 0
                                   THEN defaultHeartbeatInterval
                                   ELSE cfg.heartbeatInterval,
                      gen |-> NewGen]
            /\ loops' = [loops EXCEPT ![NewGen] =
                           [Loop0 EXCEPT !.pc = "l_send0", !.url = resolveServerURL,
                               !.token = IF signedToken # EmptyToken
                                         THEN signedToken ELSE cfg.token]]
    /\ UNCHANGED <<cfg, license, signedToken, closed, cache, now, verified, calls, spawns,
                   hbmu, stopClosed, doneClosed, ticks, chanVars>>

\* The pc StopHeartbeat returns to in its caller.
AfterStop(l) ==
    IF l.caller = "checkout" THEN "c_req"
    ELSE IF l.caller = "close" THEN "cl_close"
    ELSE "done"

\* A host goroutine calls c.StopHeartbeat().
StopHeartbeat(t) ==
    /\ Alive
    /\ pc[t] = "idle"
    /\ calls < MaxCalls
    /\ calls' = calls + 1
    /\ pc' = [pc EXCEPT ![t] = "st_lock"]
    /\ loc' = [loc EXCEPT ![t] = [Locals0 EXCEPT !.op = "StopHeartbeat"]]
    /\ UNCHANGED <<cfg, license, signedToken, closed, cache, now, verified, spawns, hbVars, chanVars>>

\* StopHeartbeat, lines 97-104: hb.mu is taken; when a heartbeat runs the
\* stop channel is closed and hb.mu stays held for the wait.
StopLocked(p) ==
    /\ Alive
    /\ pc[p] = "st_lock"
    /\ hbmu = "free"
    /\ IF ~hb.running
       THEN /\ pc' = [pc EXCEPT ![p] = AfterStop(loc[p])]
            /\ UNCHANGED <<hbmu, loc, stopClosed, panicked>>
       ELSE IF hb.gen \in stopClosed
       THEN /\ panicked' = "close of closed channel"
            /\ UNCHANGED <<hbmu, loc, stopClosed, pc>>
       ELSE /\ stopClosed' = stopClosed \cup {hb.gen}
            /\ hbmu' = p
            /\ pc' = [pc EXCEPT ![p] = "st_wait"]
            /\ loc' = [loc EXCEPT ![p].gen = hb.gen]
            /\ UNCHANGED panicked
    /\ UNCHANGED <<cfg, license, signedToken, closed, cache, now, verified, calls, spawns,
                   hb, loops, doneClosed, ticks, Events, eventsClosed, received, emitted>>

\* StopHeartbeat, lines 105-107: the receive from the done channel, then
\* running is cleared and hb.mu released.
StopWaitNoWait(p) ==
    /\ Alive
    /\ pc[p] = "st_wait"
    /\ hb' = [hb EXCEPT !.running = FALSE]
    /\ hbmu' = "free"
    /\ pc' = [pc EXCEPT ![p] = AfterStop(loc[p])]
    /\ UNCHANGED <<cfg, license, signedToken, closed, cache, now, verified, calls, spawns, loc,
                   loops, stopClosed, doneClosed, ticks, chanVars>>

StopWait(p) ==
    /\ Alive
    /\ pc[p] = "st_wait"
    /\ loc[p].gen \in doneClosed
    /\ hb' = [hb EXCEPT !.running = FALSE]
    /\ hbmu' = "free"
    /\ pc' = [pc EXCEPT ![p] = AfterStop(loc[p])]
    /\ UNCHANGED <<cfg, license, signedToken, closed, cache, now, verified, calls, spawns, loc,
                   loops, stopClosed, doneClosed, ticks, chanVars>>

\* sendHeartbeat (concurrency.go 182-218) when postJSON returns resp: the
\* event it emits.
heartbeatEventNoRejected(resp) ==
    IF resp.err THEN Event("HeartbeatError", 0)
    ELSE IF resp.status = StatusOK THEN Event("HeartbeatOK", resp.interval)
    ELSE Event("HeartbeatError", resp.status)

heartbeatEvent(resp) ==
    IF resp.err THEN Event("HeartbeatError", 0)
    ELSE IF resp.status = StatusOK THEN Event("HeartbeatOK", resp.interval)
    ELSE IF resp.status = StatusTooManyRequests THEN Event("HeartbeatRejected", resp.interval)
    ELSE Event("HeartbeatError", resp.status)

\* heartbeatLoop: a sendHeartbeat (line 161 at "l_send0", line 171 at
\* "l_send") gets its answer and emits its event.  A 200 with a positive
\* heartbeat_interval goes on to take hb.mu; otherwise the first send goes
\* on to NewTicker(c.hb.interval) and the select, a later one to line 174.
LoopSend(g) ==
    /\ Alive
    /\ loops[g].pc \in {"l_send0", "l_send"}
    /\ \E resp \in HeartbeatResponses :
          /\ emitEvent(heartbeatEvent(resp))
          /\ LET first == loops[g].pc = "l_send0"
                 adapt == ~resp.err /\ resp.status = StatusOK /\ resp.interval > 0
             IN  loops' = [loops EXCEPT ![g] =
                    IF adapt
                    THEN [@ EXCEPT !.pc = IF first THEN "l_int0" ELSE "l_int",
                                   !.newInterval = resp.interval, !.resp = resp]
                    ELSE IF first
                    THEN [@ EXCEPT !.pc = "l_select", !.period = hb.interval, !.resp = resp]
                    ELSE [@ EXCEPT !.pc = "l_lock", !.resp = resp]]
    /\ UNCHANGED <<cfg, license, signedToken, closed, cache, now, verified, calls, spawns, pc, loc,
                   hb, hbmu, stopClosed, doneClosed, ticks>>

\* sendHeartbeat, lines 207-212: the new interval is stored under hb.mu.
LoopSetInterval(g) ==
    /\ Alive
    /\ loops[g].pc \in {"l_int0", "l_int"}
    /\ hbmu = "free"
    /\ hb' = [hb EXCEPT !.interval = loops[g].newInterval]
    /\ loops' = [loops EXCEPT ![g] =
                   IF loops[g].pc = "l_int0"
                   THEN [@ EXCEPT !.pc = "l_select", !.period = loops[g].newInterval,
                                  !.newInterval = 0]
                   ELSE [@ EXCEPT !.pc = "l_lock", !.newInterval = 0]]
    /\ UNCHANGED <<cfg, license, signedToken, closed, cache, now, verified, calls, spawns, pc, loc,
                   hbmu, stopClosed, doneClosed, ticks, chanVars>>

\* heartbeatLoop, lines 174-177: hb.interval is read under hb.mu and the
\* ticker reset to it.
LoopResetKeepPeriod(g) ==
    /\ Alive
    /\ loops[g].pc = "l_lock"
    /\ hbmu = "free"
    /\ loops' = [loops EXCEPT ![g] = [@ EXCEPT !.pc = "l_select"]]
    /\ UNCHANGED <<cfg, license, signedToken, closed, cache, now, verified, calls, spawns, pc, loc,
                   hb, hbmu, stopClosed, doneClosed, ticks, chanVars>>

LoopReset(g) ==
    /\ Alive
    /\ loops[g].pc = "l_lock"
    /\ hbmu = "free"
    /\ loops' = [loops EXCEPT ![g] = [@ EXCEPT !.pc = "l_select", !.period = hb.interval]]
    /\ UNCHANGED <<cfg, license, signedToken, closed, cache, now, verified, calls, spawns, pc, loc,
                   hb, hbmu, stopClosed, doneClosed, ticks, chanVars>>

\* heartbeatLoop, lines 168-169 and 158: the stop channel is closed, the
\* loop returns and its deferred close(doneCh) runs.
LoopStop(g) ==
    /\ Alive
    /\ loops[g].pc = "l_select"
    /\ g \in stopClosed
    /\ loops' = [loops EXCEPT ![g] = [@ EXCEPT !.pc = "exited"]]
    /\ doneClosed' = doneClosed \cup {g}
    /\ UNCHANGED <<cfg, license, signedToken, closed, cache, now, verified, calls, spawns, pc, loc,
                   hb, hbmu, stopClosed, ticks, chanVars>>

\* heartbeatLoop, lines 170-171: the ticker fires and a send starts.
LoopTick(g) ==
    /\ Alive
    /\ loops[g].pc = "l_select"
    /\ ticks < MaxTicks
    /\ ticks' = ticks + 1
    /\ loops' = [loops EXCEPT ![g] = [@ EXCEPT !.pc = "l_send"]]
    /\ UNCHANGED <<cfg, license, signedToken, closed, cache, now, verified, calls, spawns, pc, loc,
                   hb, hbmu, stopClosed, doneClosed, chanVars>>

\* Checkout, lines 111-116: the check of c.closed, then StopHeartbeat.
Checkout(t) ==
    /\ Alive
    /\ pc[t] = "idle"
    /\ calls < MaxCalls
    /\ calls' = calls + 1
    /\ LET l == [Locals0 EXCEPT !.op = "Checkout"]
       IN  IF closed
           THEN /\ pc' = [pc EXCEPT ![t] = "done"]
                /\ loc' = [loc EXCEPT ![t] = [l EXCEPT !.retErr = "ErrClientClosed"]]
           ELSE /\ pc' = [pc EXCEPT ![t] = "st_lock"]
                /\ loc' = [loc EXCEPT ![t] = [l EXCEPT !.caller = "checkout"]]
    /\ UNCHANGED <<cfg, license, signedToken, closed, cache, now, verified, spawns, hbVars, chanVars>>

\* Checkout, lines 118-144: the server URL and the token, then the request.
CheckoutRequest(p) ==
    /\ Alive
    /\ pc[p] = "c_req"
    /\ IF resolveServerURL = ""
       THEN /\ pc' = [pc EXCEPT ![p] = "done"]
            /\ loc' = [loc EXCEPT ![p].retErr = "ErrNoServerURL"]
       ELSE IF signedToken = EmptyToken
       THEN /\ pc' = [pc EXCEPT ![p] = "done"]
            /\ loc' = [loc EXCEPT ![p].retErr = "ErrNoToken"]
       ELSE /\ pc' = [pc EXCEPT ![p] = "c_http"]
            /\ loc' = [loc EXCEPT ![p].url = resolveServerURL, ![p].sent = signedToken]
    /\ UNCHANGED <<cfg, license, signedToken, closed, cache, now, verified, calls, spawns, hbVars, chanVars>>

\* Checkout, lines 144-154: deleteJSON returns.
CheckoutResponseAlwaysReleased(p) ==
    /\ Alive
    /\ pc[p] = "c_http"
    /\ pc' = [pc EXCEPT ![p] = "done"]
    /\ \E resp \in CheckoutResponses :
          LET l == [loc[p] EXCEPT !.status = resp.status, !.herr = postError(resp)] IN
          /\ emitEvent(Event("SeatReleased", 0))
          /\ loc' = [loc EXCEPT ![p] = [l EXCEPT !.retErr = "nil"]]
    /\ UNCHANGED <<cfg, license, signedToken, closed, cache, now, verified, calls, spawns, hbVars>>

CheckoutResponse(p) ==
    /\ Alive
    /\ pc[p] = "c_http"
    /\ pc' = [pc EXCEPT ![p] = "done"]
    /\ \E resp \in CheckoutResponses :
          LET l == [loc[p] EXCEPT !.status = resp.status, !.herr = postError(resp)] IN
          IF resp.err \/ resp.status # StatusOK
          THEN /\ loc' = [loc EXCEPT ![p] = [l EXCEPT !.retErr = "ServerUnreachable",
                                                      !.retCause = postError(resp)]]
               /\ UNCHANGED chanVars
          ELSE /\ emitEvent(Event("SeatReleased", 0))
               /\ loc' = [loc EXCEPT ![p] = [l EXCEPT !.retErr = "nil"]]
    /\ UNCHANGED <<cfg, license, signedToken, closed, cache, now, verified, calls, spawns, hbVars>>

\* Close, lines 57-60: the check of c.closed, then StopHeartbeat.
Close(t) ==
    /\ Alive
    /\ pc[t] = "idle"
    /\ calls < MaxCalls
    /\ calls' = calls + 1
    /\ LET l == [Locals0 EXCEPT !.op = "Close"]
       IN  IF closed
           THEN /\ pc' = [pc EXCEPT ![t] = "done"]
                /\ loc' = [loc EXCEPT ![t] = l]
           ELSE /\ pc' = [pc EXCEPT ![t] = "st_lock"]
                /\ loc' = [loc EXCEPT ![t] = [l EXCEPT !.caller = "close"]]
    /\ UNCHANGED <<cfg, license, signedToken, closed, cache, now, verified, spawns, hbVars, chanVars>>

\* Close, lines 61-63: c.closed = true and close(c.Events); closing a
\* closed channel panics.
CloseFinish(p) ==
    /\ Alive
    /\ pc[p] = "cl_close"
    /\ closed' = TRUE
    /\ IF eventsClosed
       THEN /\ panicked' = "close of closed channel"
            /\ UNCHANGED <<eventsClosed, pc>>
       ELSE /\ eventsClosed' = TRUE
            /\ pc' = [pc EXCEPT ![p] = "done"]
            /\ UNCHANGED panicked
    /\ UNCHANGED <<cfg, license, signedToken, cache, now, verified, calls, spawns, loc, hbVars,
                   Events, received, emitted>>

----------------------------------------------------------------------------
(* The host and the environment *)

\* The call of a host goroutine has returned; the goroutine is free again.
Return(t) ==
    /\ Alive
    /\ pc[t] = "done"
    /\ pc' = [pc EXCEPT ![t] = "idle"]
    /\ loc' = [loc EXCEPT ![t] = Locals0]
    /\ UNCHANGED <<cfg, license, signedToken, closed, cache, now, verified, calls, spawns, hbVars, chanVars>>

\* The application receives from the Events channel.
Receive ==
    /\ Alive
    /\ Events # << >>
    /\ Len(received) < MaxReceives
    /\ Events' = Tail(Events)
    /\ received' = Append(received, Head(Events))
    /\ UNCHANGED <<cfg, license, signedToken, closed, cache, now, verified, calls, spawns, pc,
                   loc, hbVars, eventsClosed, panicked, emitted>>

\* A day passes.
Tick ==
    /\ Alive
    /\ now < MaxTime
    /\ now' = now + 1
    /\ UNCHANGED <<cfg, license, signedToken, closed, cache, pc, loc, verified, calls, spawns,
                   hbVars, chanVars>>

\* NewClient (unnamed/part_001 25-45) with configuration c: the fields
\* of a fresh client and the goroutines of a fresh process.
NewClient(c) ==
    [cfg |-> c, license |-> NilLicense, signedToken |-> c.token, closed |-> FALSE,
     hb |-> [running |-> FALSE, interval |-> 0, gen |-> 0],
     hbmu |-> "free", Events |-> << >>, eventsClosed |-> FALSE,
     pc |-> [p \in Procs |-> IF p \in Hosts THEN "idle" ELSE "free"],
     loc |-> [p \in Procs |-> Locals0],
     loops |-> [g \in 1..MaxStarts |-> Loop0]]

\* The cache file a fresh process finds: none, or the one an earlier
\* process left, written by its Validate of a verified token on day 1.
InitCaches ==
    {NoFile} \cup
    {cacheSave(FALSE, NoFile, temporalChecks(payloadToLicense(t, t, TRUE), t, 1)) :
        t \in {TShort, TFuture}}

Init ==
    /\ \E c \in Configs :
          LET f == NewClient(c) IN
          /\ cfg = f.cfg
          /\ license = f.license
          /\ signedToken = f.signedToken
          /\ closed = f.closed
          /\ hb = f.hb
          /\ hbmu = f.hbmu
          /\ Events = f.Events
          /\ eventsClosed = f.eventsClosed
          /\ pc = f.pc
          /\ loc = f.loc
          /\ loops = f.loops
    /\ stopClosed = {}
    /\ doneClosed = {}
    /\ panicked = "none"
    /\ received = << >>
    /\ emitted = << >>
    /\ ticks = 0
    /\ cache \in InitCaches
    /\ cfg.disableCache => cache = NoFile
    /\ verified = IF cache # NoFile /\ jsonUnmarshal(cache).Valid
                  THEN {[lic |-> jsonUnmarshal(cache), at |-> 1]} ELSE {}
    /\ now = 1
    /\ calls = 0
    /\ spawns = 0

\* A goroutine is busy while it is inside a method.
Busy(q) == pc[q] \notin {"idle", "free", "done", "r_start"}

\* The sequential schedule: a goroutine runs only while no other is busy.
Alone(p) == \A q \in Procs \ {p} : ~Busy(q)

CoreHosts == {"h1"}

\* Sequential use of one client by one host goroutine: every method,
\* and every background renewal, runs to its end before another starts,
\* while time passes freely.
Next ==
    \/ \E t \in CoreHosts :
          \/ Alone(t) /\ Validate(t)
          \/ Alone(t) /\ ValidateFromCache(t)
          \/ Alone(t) /\ Renew(t)
          \/ Alone(t) /\ RenewResult(t)
          \/ Alone(t) /\ Return(t)
    \/ \E p \in CoreHosts \cup Autos :
          \/ Alone(p) /\ ValidateCommit(p)
          \/ Alone(p) /\ ValidateSave(p)
          \/ Alone(p) /\ RenewResponse(p)
          \/ Alone(p) /\ RenewValidate(p)
          \/ Alone(p) /\ RenewAfter(p)
    \/ \E a \in Autos :
          \/ Alone(a) /\ AutoRenewStart(a)
          \/ Alone(a) /\ AutoRenewCallback(a)
          \/ Alone(a) /\ AutoRenewEnd(a)
    \/ Tick

Spec == Init /\ [][Next]_vars

----------------------------------------------------------------------------
(* Concurrent use of the heartbeat methods *)

\* A client that can start a heartbeat at once (a server URL and a token
\* are configured), one with a server URL and no token, and one with
\* neither, which finds the cache file an earlier process wrote.
HBConfigs ==
    { MkCfg("k1", TLong, "u0", FALSE, FALSE, FALSE, 0, TRUE, 0),
      MkCfg("k1", EmptyToken, "u0", FALSE, FALSE, FALSE, 0, TRUE, 0),
      MkCfg("k1", EmptyToken, "", FALSE, FALSE, FALSE, 0, TRUE, 0) }

InitHB ==
    /\ \E c \in HBConfigs :
          LET f == NewClient(c) IN
          /\ cfg = f.cfg
          /\ license = f.license
          /\ signedToken = f.signedToken
          /\ closed = f.closed
          /\ hb = f.hb
          /\ hbmu = f.hbmu
          /\ Events = f.Events
          /\ eventsClosed = f.eventsClosed
          /\ pc = f.pc
          /\ loc = f.loc
          /\ loops = f.loops
    /\ stopClosed = {}
    /\ doneClosed = {}
    /\ panicked = "none"
    /\ received = << >>
    /\ emitted = << >>
    /\ ticks = 0
    /\ cache = IF cfg.serverURL = ""
               THEN cacheSave(FALSE, NoFile,
                              temporalChecks(payloadToLicense(TShort, TShort, TRUE), TShort, 1))
               ELSE NoFile
    /\ verified = IF cache # NoFile /\ jsonUnmarshal(cache).Valid
                  THEN {[lic |-> jsonUnmarshal(cache), at |-> 1]} ELSE {}
    /\ now = 1
    /\ calls = 0
    /\ spawns = 0

\* Two host goroutines call ValidateFromCache, StartHeartbeat,
\* StopHeartbeat, Checkout and Close in any order and interleaving while the heartbeat loops run.
NextHB ==
    \/ \E t \in Hosts :
          \/ ValidateFromCache(t)
          \/ StartHeartbeat(t)
          \/ StartHeartbeatLocked(t)
          \/ StopHeartbeat(t)
          \/ StopLocked(t)
          \/ StopWait(t)
          \/ Checkout(t)
          \/ CheckoutRequest(t)
          \/ CheckoutResponse(t)
          \/ Close(t)
          \/ CloseFinish(t)
          \/ Return(t)
    \/ \E g \in 1..MaxStarts :
          \/ LoopSend(g)
          \/ LoopSetInterval(g)
          \/ LoopReset(g)
          \/ LoopStop(g)
          \/ LoopTick(g)

SpecHB == InitHB /\ [][NextHB]_vars

----------------------------------------------------------------------------
(* Sequential use of clients built with other options, and Close *)

\* Clients and the cache file they find: one without a public key and
\* without a token, with the cache file an earlier process wrote, and one
\* with key, token and server URL and no cache file.
OptClients ==
    { [cfg |-> MkCfg("nil", EmptyToken, "u0", FALSE, FALSE, FALSE, 0, TRUE, 0),
       cache |-> cacheSave(FALSE, NoFile,
                           temporalChecks(payloadToLicense(TShort, TShort, TRUE), TShort, 1))],
      [cfg |-> MkCfg("k1", TShort, "u0", FALSE, FALSE, FALSE, 0, TRUE, 0), cache |-> NoFile] }

InitOpt ==
    /\ \E o \in OptClients :
          LET f == NewClient(o.cfg) IN
          /\ cfg = f.cfg
          /\ license = f.license
          /\ signedToken = f.signedToken
          /\ closed = f.closed
          /\ hb = f.hb
          /\ hbmu = f.hbmu
          /\ Events = f.Events
          /\ eventsClosed = f.eventsClosed
          /\ pc = f.pc
          /\ loc = f.loc
          /\ loops = f.loops
          /\ cache = o.cache
    /\ stopClosed = {}
    /\ doneClosed = {}
    /\ panicked = "none"
    /\ received = << >>
    /\ emitted = << >>
    /\ ticks = 0
    /\ verified = IF cache # NoFile /\ jsonUnmarshal(cache).Valid
                  THEN {[lic |-> jsonUnmarshal(cache), at |-> 1]} ELSE {}
    /\ now = 1
    /\ calls = 0
    /\ spawns = 0

\* The sequential schedule of Next, with Close among the calls.
NextOpt ==
    \/ Next
    \/ \E t \in CoreHosts :
          \/ Alone(t) /\ Close(t)
          \/ Alone(t) /\ StopLocked(t)
          \/ Alone(t) /\ CloseFinish(t)

SpecOpt == InitOpt /\ [][NextOpt]_vars

----------------------------------------------------------------------------
(* Sequential use of clients built with the auto-renewal options *)

\* Clients with a public key, a server URL and a token that expires on
\* day 20: auto-renewal disabled, offline-only (both with a threshold
\* that is reached on day 1), a threshold that is reached on day 2, and
\* the default threshold.
ARConfigs ==
    { MkCfg("k1", TLong, "u0", FALSE, TRUE, FALSE, 19, TRUE, 0),
      MkCfg("k1", TLong, "u0", FALSE, FALSE, TRUE, 19, TRUE, 0),
      MkCfg("k1", TLong, "u0", FALSE, FALSE, FALSE, 18, TRUE, 0),
      MkCfg("k1", TLong, "u0", FALSE, FALSE, FALSE, 0, TRUE, 0) }

InitAR ==
    /\ \E c \in ARConfigs :
          LET f == NewClient(c) IN
          /\ cfg = f.cfg
          /\ license = f.license
          /\ signedToken = f.signedToken
          /\ closed = f.closed
          /\ hb = f.hb
          /\ hbmu = f.hbmu
          /\ Events = f.Events
          /\ eventsClosed = f.eventsClosed
          /\ pc = f.pc
          /\ loc = f.loc
          /\ loops = f.loops
    /\ stopClosed = {}
    /\ doneClosed = {}
    /\ panicked = "none"
    /\ received = << >>
    /\ emitted = << >>
    /\ ticks = 0
    /\ cache = NoFile
    /\ verified = {}
    /\ now = 1
    /\ calls = 0
    /\ spawns = 0

\* One host goroutine calls Validate again and again; every Validate and
\* every background renewal runs to its end before another starts, while
\* time passes freely.
NextAR ==
    \/ \E t \in CoreHosts :
          \/ Alone(t) /\ Validate(t)
          \/ Alone(t) /\ Return(t)
    \/ \E p \in CoreHosts \cup Autos :
          \/ Alone(p) /\ ValidateCommit(p)
          \/ Alone(p) /\ ValidateSave(p)
    \/ \E a \in Autos :
          \/ Alone(a) /\ AutoRenewStart(a)
          \/ Alone(a) /\ RenewResponse(a)
          \/ Alone(a) /\ RenewValidate(a)
          \/ Alone(a) /\ RenewAfter(a)
          \/ Alone(a) /\ AutoRenewCallback(a)
          \/ Alone(a) /\ AutoRenewEnd(a)
    \/ Tick

SpecAR == InitAR /\ [][NextAR]_vars

----------------------------------------------------------------------------
(* A slow consumer of the Events channel *)

\* The events of earlier heartbeats that are still in the channel when the
\* run starts: one fewer than the channel holds, or a full channel.
Backlogs ==
    { [k \in 1..n |-> Event("HeartbeatOK", 0)] :
         n \in {eventsChannelSize - 1, eventsChannelSize} }

InitEv ==
    /\ LET f == NewClient(MkCfg("k1", TLong, "u0", FALSE, FALSE, FALSE, 0, TRUE, 0)) IN
          /\ cfg = f.cfg
          /\ license = f.license
          /\ signedToken = f.signedToken
          /\ closed = f.closed
          /\ hb = f.hb
          /\ hbmu = f.hbmu
          /\ eventsClosed = f.eventsClosed
          /\ pc = f.pc
          /\ loc = f.loc
          /\ loops = f.loops
    /\ Events \in Backlogs
    /\ emitted = Events
    /\ received = << >>
    /\ stopClosed = {}
    /\ doneClosed = {}
    /\ panicked = "none"
    /\ ticks = 0
    /\ cache = NoFile
    /\ verified = {}
    /\ now = 1
    /\ calls = 0
    /\ spawns = 0

\* One host goroutine starts the heartbeat and checks out while the loop
\* runs and the application receives events at its own pace.
NextEv ==
    \/ \E t \in CoreHosts :
          \/ StartHeartbeat(t)
          \/ StartHeartbeatLocked(t)
          \/ Checkout(t)
          \/ StopLocked(t)
          \/ StopWait(t)
          \/ CheckoutRequest(t)
          \/ CheckoutResponse(t)
          \/ Return(t)
    \/ \E g \in 1..MaxStarts :
          \/ LoopSend(g)
          \/ LoopSetInterval(g)
          \/ LoopReset(g)
          \/ LoopStop(g)
          \/ LoopTick(g)
    \/ Receive

SpecEv == InitEv /\ [][NextEv]_vars

----------------------------------------------------------------------------
(* Validate while the heartbeat runs *)

InitTok ==
    /\ LET f == NewClient(MkCfg("k1", TLong, "u0", FALSE, TRUE, FALSE, 0, TRUE, 0)) IN
          /\ cfg = f.cfg
          /\ license = f.license
          /\ signedToken = f.signedToken
          /\ closed = f.closed
          /\ hb = f.hb
          /\ hbmu = f.hbmu
          /\ Events = f.Events
          /\ eventsClosed = f.eventsClosed
          /\ pc = f.pc
          /\ loc = f.loc
          /\ loops = f.loops
    /\ stopClosed = {}
    /\ doneClosed = {}
    /\ panicked = "none"
    /\ received = << >>
    /\ emitted = << >>
    /\ ticks = 0
    /\ cache = NoFile
    /\ verified = {}
    /\ now = 1
    /\ calls = 0
    /\ spawns = 0

\* One host goroutine starts the heartbeat and validates tokens while the
\* loop runs.
NextTok ==
    \/ \E t \in CoreHosts :
          \/ StartHeartbeat(t)
          \/ StartHeartbeatLocked(t)
          \/ Validate(t)
          \/ ValidateCommit(t)
          \/ ValidateSave(t)
          \/ Return(t)
    \/ \E g \in 1..MaxStarts :
          \/ LoopSend(g)
          \/ LoopSetInterval(g)
          \/ LoopReset(g)
          \/ LoopTick(g)

SpecTok == InitTok /\ [][NextTok]_vars

----------------------------------------------------------------------------
(* Validate calls that overlap *)

InitCC ==
    /\ LET f == NewClient(MkCfg("k1", TLong, "u0", FALSE, TRUE, FALSE, 0, TRUE, 0)) IN
          /\ cfg = f.cfg
          /\ license = f.license
          /\ signedToken = f.signedToken
          /\ closed = f.closed
          /\ hb = f.hb
          /\ hbmu = f.hbmu
          /\ Events = f.Events
          /\ eventsClosed = f.eventsClosed
          /\ pc = f.pc
          /\ loc = f.loc
          /\ loops = f.loops
    /\ stopClosed = {}
    /\ doneClosed = {}
    /\ panicked = "none"
    /\ received = << >>
    /\ emitted = << >>
    /\ ticks = 0
    /\ cache = NoFile
    /\ verified = {}
    /\ now = 1
    /\ calls = 0
    /\ spawns = 0

\* Two host goroutines call Validate on the same client; their steps
\* interleave freely.
NextCC ==
    \/ \E t \in Hosts :
          \/ Validate(t)
          \/ ValidateCommit(t)
          \/ ValidateSave(t)
          \/ Return(t)
    \/ Tick

SpecCC == InitCC /\ [][NextCC]_vars

----------------------------------------------------------------------------
(* Close calls that overlap *)

InitClose ==
    /\ LET f == NewClient(MkCfg("k1", TLong, "u0", FALSE, TRUE, FALSE, 0, TRUE, 0)) IN
          /\ cfg = f.cfg
          /\ license = f.license
          /\ signedToken = f.signedToken
          /\ closed = f.closed
          /\ hb = f.hb
          /\ hbmu = f.hbmu
          /\ Events = f.Events
          /\ eventsClosed = f.eventsClosed
          /\ pc = f.pc
          /\ loc = f.loc
          /\ loops = f.loops
    /\ stopClosed = {}
    /\ doneClosed = {}
    /\ panicked = "none"
    /\ received = << >>
    /\ emitted = << >>
    /\ ticks = 0
    /\ cache = NoFile
    /\ verified = {}
    /\ now = 1
    /\ calls = 0
    /\ spawns = 0

\* No host goroutine is inside the method op.
NoCall(op) == \A q \in Hosts : loc[q].op # op

\* One host goroutine may start the heartbeat, and only while no Close has
\* begun; then two host goroutines call Close, their steps interleaving
\* freely with each other and with the heartbeat loop.
NextClose ==
    \/ \E t \in CoreHosts :
          \/ NoCall("Close") /\ StartHeartbeat(t)
          \/ StartHeartbeatLocked(t)
    \/ \E t \in Hosts :
          \/ NoCall("StartHeartbeat") /\ Close(t)
          \/ StopLocked(t)
          \/ StopWait(t)
          \/ CloseFinish(t)
          \/ Return(t)
    \/ \E g \in 1..MaxStarts :
          \/ LoopSend(g)
          \/ LoopSetInterval(g)
          \/ LoopReset(g)
          \/ LoopStop(g)
          \/ LoopTick(g)

SpecClose == InitClose /\ [][NextClose]_vars

----------------------------------------------------------------------------
(* One Validate and the background renewals that follow it *)

\* Clients with a public key, a server URL, auto-renewal enabled and a
\* token that expires on day 20: the renewal threshold is reached on day 1
\* or on day 2.
ChainConfigs ==
    { MkCfg("k1", TLong, "u0", FALSE, FALSE, FALSE, 19, TRUE, 0),
      MkCfg("k1", TLong, "u0", FALSE, FALSE, FALSE, 18, TRUE, 0) }

\* The host has one call left, and the events of earlier heartbeats are
\* still in the channel.
InitChain ==
    /\ \E c \in ChainConfigs :
          LET f == NewClient(c) IN
          /\ cfg = f.cfg
          /\ license = f.license
          /\ signedToken = f.signedToken
          /\ closed = f.closed
          /\ hb = f.hb
          /\ hbmu = f.hbmu
          /\ eventsClosed = f.eventsClosed
          /\ pc = f.pc
          /\ loc = f.loc
          /\ loops = f.loops
    /\ stopClosed = {}
    /\ doneClosed = {}
    /\ panicked = "none"
    /\ Events \in Backlogs
    /\ emitted = Events
    /\ received = << >>
    /\ ticks = 0
    /\ cache = NoFile
    /\ verified = {}
    /\ now = 1
    /\ calls = MaxCalls - 1
    /\ spawns = 0

\* The steps of the goroutines once they have been started.
ChainRun ==
    \/ \E t \in CoreHosts :
          \/ Alone(t) /\ Return(t)
    \/ \E p \in CoreHosts \cup Autos :
          \/ Alone(p) /\ ValidateCommit(p)
          \/ Alone(p) /\ ValidateSaveOn(p)
    \/ \E a \in Autos :
          \/ Alone(a) /\ AutoRenewStart(a)
          \/ Alone(a) /\ RenewResponse(a)
          \/ Alone(a) /\ RenewValidate(a)
          \/ Alone(a) /\ RenewAfter(a)
          \/ Alone(a) /\ AutoRenewCallback(a)
          \/ Alone(a) /\ AutoRenewEnd(a)

\* The host calls Validate once; the renewals it causes run one after
\* another, each to its end, while time passes.
NextChain ==
    \/ \E t \in CoreHosts : Alone(t) /\ Validate(t)
    \/ ChainRun
    \/ Tick

\* A goroutine that can run is run: the Go scheduler starves no runnable
\* goroutine, and every request is answered.
SpecChain == InitChain /\ [][NextChain]_vars /\ WF_vars(ChainRun)

----------------------------------------------------------------------------
(* Properties of the stored License and token *)

\* The key the license server signs with.
IssuerKey == "k1"

SignatureVerifies(tok) == tok.enc = "ok" /\ tok.signer = IssuerKey

\* Both temporal checks of Validate, on day t.
PassesTemporal(lic, t) ==
    /\ lic.IssuedAt = 0 \/ t >= lic.IssuedAt
    /\ lic.ExpiresAt = 0 \/ t <= lic.ExpiresAt

\* The step in which p leaves Renew by its fallback path (renewal.go 57-68):
\* the answer was 200 but its token was not re-validated to a valid License.
RenewFallbackStep(p) ==
    /\ pc[p] = "r_after"
    /\ pc'[p] # "r_after"
    /\ loc[p].op \in {"Renew", "AutoRenew"}
    /\ ~(loc[p].verr = "nil" /\ loc[p].vlic.Valid)
    /\ license' = license
    /\ signedToken' = loc[p].result

\* The step in which p commits a License to the client: Validate's commit
\* or a successful ValidateFromCache.
CommitStep(p) ==
    \/ pc[p] = "v_commit" /\ pc'[p] = "v_save"
    \/ /\ pc[p] = "idle"
       /\ pc'[p] = "done"
       /\ loc'[p].op = "ValidateFromCache"
       /\ loc'[p].retErr = "nil"

\* C1, as the specification states it: in every reachable state where the
\* stored License is non-nil, the stored token is that License's SignedToken.
C1_TokenIsLicenseToken ==
    license # NilLicense => signedToken = license.SignedToken

\* C1, amended: every step that changes the stored License or the stored
\* token leaves the token equal to the License's SignedToken, except the
\* step of Renew's fallback path, which stores the server's new token
\* alone and leaves the License as it was.
C1_TokenFollowsLicense ==
    [][ (license' # license \/ signedToken' # signedToken)
           => \/ license' # NilLicense /\ signedToken' = license'.SignedToken
              \/ \E p \in Procs : RenewFallbackStep(p) ]_vars

\* Renew has returned the re-validated License, which is now the stored
\* one together with its token.
C1_Witness ==
    \E t \in Hosts :
        /\ pc[t] = "done"
        /\ loc[t].op = "Renew"
        /\ loc[t].retErr = "nil"
        /\ loc[t].retLic = license
        /\ loc[t].result # loc[t].sent
        /\ signedToken = loc[t].result
        /\ license.SignedToken = loc[t].result

\* C2, as the specification states it: every commit of a License with
\* Valid = true happens for a token whose signature verifies and on a day
\* on which the not-valid-before and the expiry check both pass.
C2_CheckedAtCommit ==
    [][ \A p \in Procs :
          CommitStep(p) /\ license'.Valid
             => /\ SignatureVerifies(license'.SignedToken)
                /\ PassesTemporal(license', now) ]_vars

\* C2, amended: every stored License with Valid = true carries a token
\* whose signature verifies and passed both temporal checks on the day a
\* Validate built it; ValidateFromCache commits the cached License as it
\* is, on whatever later day.
C2_CheckedWhenBuilt ==
    license # NilLicense /\ license.Valid
       => /\ SignatureVerifies(license.SignedToken)
          /\ \E b \in verified : b.lic = license /\ PassesTemporal(license, b.at)

\* ValidateFromCache has committed a License with Valid = true that is
\* past its expiry on the day of the commit.
C2_Witness ==
    \E t \in Hosts :
        /\ pc[t] = "done"
        /\ loc[t].op = "ValidateFromCache"
        /\ loc[t].retErr = "nil"
        /\ loc[t].retLic = license
        /\ license.Valid
        /\ ~PassesTemporal(license, now)

----------------------------------------------------------------------------
(* Properties of the heartbeat scheduler and the event channel *)

\* p has returned from a StopHeartbeat that stopped a running loop,
\* loc[p].gen (called by the host, by Checkout or by Close).
StopReturned(p) ==
    /\ loc[p].gen # 0
    /\ pc[p] \notin {"st_lock", "st_wait"}

\* The heartbeat loop g has a step it can take.
LoopCanStep(g) ==
    ENABLED (LoopSend(g) \/ LoopSetInterval(g) \/ LoopReset(g) \/ LoopStop(g) \/ LoopTick(g))

\* C3: under every interleaving of StartHeartbeat, StopHeartbeat, Checkout
\* and Close at most one heartbeat loop exists; a loop exists only while
\* the running flag is set, and while the flag is clear every loop that
\* was launched has closed its done channel.
C3_AtMostOneLoop ==
    /\ Cardinality(LiveLoops) <= 1
    /\ LiveLoops # {} => hb.running /\ LiveLoops = {hb.gen}
    /\ ~hb.running => \A g \in DOMAIN loops : loops[g].pc # "none" => g \in doneClosed

\* A second StartHeartbeat was refused with ErrAlreadyRunning while the
\* first one's loop runs.
C3_Witness ==
    \E t \in Hosts :
        /\ pc[t] = "done"
        /\ loc[t].op = "StartHeartbeat"
        /\ loc[t].retErr = "ErrAlreadyRunning"
        /\ Cardinality(LiveLoops) = 1

\* C4: once a StopHeartbeat that stopped a running loop has returned, that
\* loop has exited: none of its sends is in flight and it can emit no
\* further event.
C4_StoppedLoopIsOver ==
    \A p \in Hosts :
        StopReturned(p)
           => /\ loops[loc[p].gen].pc = "exited"
              /\ ~ENABLED LoopSend(loc[p].gen)

\* A StopHeartbeat has returned after stopping a loop that had emitted
\* a heartbeat event.
C4_Witness ==
    \E t \in Hosts :
        /\ pc[t] = "done"
        /\ loc[t].op = "StopHeartbeat"
        /\ loc[t].gen # 0
        /\ Len(Events) > 0

\* C5: a StopHeartbeat that waits for a running loop is never stuck: its
\* loop has closed the done channel or can take a step towards it, whatever
\* the server answered for the heartbeat in flight.
C5_StopNeverStuck ==
    \A p \in Hosts :
        Alive /\ pc[p] = "st_wait"
           => loc[p].gen \in doneClosed \/ LoopCanStep(loc[p].gen)

\* C6: no event is ever sent on the Events channel after Close closed it.
C6_NoSendAfterClose ==
    panicked # "send on closed channel"

----------------------------------------------------------------------------
(* Properties of Validate *)

\* The token verifies under key: it decodes, the signature is the key's
\* and the payload is a JSON document.
VerifiesUnder(key, tok) == tok.enc = "ok" /\ tok.signer = key /\ tok.json

\* The step in which p runs Validate from its entry to the end of the
\* temporal checks, for a host call or for Renew.
ValidateChecks(p) ==
    \/ pc[p] = "idle" /\ pc'[p] # "idle" /\ loc'[p].op = "Validate"
    \/ pc[p] = "r_validate" /\ pc'[p] # "r_validate"

\* In that step an open client with a public key reached verifyToken
\* with a token, and it failed / succeeded.
VerifyFails(p) ==
    /\ ValidateChecks(p)
    /\ ~closed
    /\ loc'[p].token # EmptyToken
    /\ cfg.publicKey # "nil"
    /\ ~VerifiesUnder(cfg.publicKey, loc'[p].token)

VerifySucceeds(p) ==
    /\ ValidateChecks(p)
    /\ ~closed
    /\ loc'[p].token # EmptyToken
    /\ cfg.publicKey # "nil"
    /\ VerifiesUnder(cfg.publicKey, loc'[p].token)

\* The step in which p's Validate saves to the cache, decides on the
\* auto-renewal and returns.
ValidateReturns(p) == pc[p] = "v_save" /\ pc'[p] # "v_save"

\* p's Validate has returned (lic, err) in this step.
ValidateReturned(p, lic, err) ==
    IF loc'[p].caller = "host"
    THEN pc'[p] = "done" /\ loc'[p].retLic = lic /\ loc'[p].retErr = err
    ELSE pc'[p] = "r_after" /\ loc'[p].vlic = lic /\ loc'[p].verr = err

CacheHolds == ~cfg.disableCache /\ cache # NoFile

\* No goroutine other than p moved in this step: no renewal was started.
NoneStarted(p) ==
    /\ spawns' = spawns
    /\ \A q \in Procs \ {p} : pc'[q] = pc[q]

\* C7: when verifyToken fails in Validate and the cache holds a license,
\* Validate returns that License as the cache file holds it with a nil
\* error, and the stored License, the stored token and the cache file
\* stay as they were.
C7_CacheFallback ==
    [][ \A p \in Procs :
          VerifyFails(p) /\ CacheHolds
             => /\ ValidateReturned(p, jsonUnmarshal(cache), "nil")
                /\ UNCHANGED <<license, signedToken, cache>> ]_vars

\* Validate of a token that does not verify has returned the License of
\* the cache file.
C7_Witness ==
    \E t \in Hosts :
        /\ pc[t] = "done"
        /\ loc[t].op = "Validate"
        /\ loc[t].token # EmptyToken
        /\ ~VerifiesUnder(cfg.publicKey, loc[t].token)
        /\ loc[t].retErr = "nil"
        /\ CacheHolds
        /\ loc[t].retLic = jsonUnmarshal(cache)

\* C8: when verifyToken fails in Validate and there is no cache entry,
\* Validate returns no License and the verifier's error (invalid signature
\* when the signature is not the key's, decode error when the token is
\* malformed); the stored License, the stored token and the cache stay as
\* they were and no auto-renewal is started.
C8_VerifierError ==
    [][ \A p \in Procs :
          VerifyFails(p) /\ ~CacheHolds
             => /\ ValidateReturned(p, NilLicense,
                       IF loc'[p].token.enc = "ok" /\ loc'[p].token.signer # cfg.publicKey
                       THEN "InvalidLicenseSignature" ELSE "LicenseDecodeError")
                /\ UNCHANGED <<license, signedToken, cache>>
                /\ NoneStarted(p) ]_vars

\* Validate of a token signed with another key has returned the invalid
\* signature error, with no cache entry to fall back to.
C8_Witness ==
    \E t \in Hosts :
        /\ pc[t] = "done"
        /\ loc[t].op = "Validate"
        /\ loc[t].token.enc = "ok"
        /\ loc[t].token.signer # cfg.publicKey
        /\ cfg.publicKey # "nil"
        /\ ~CacheHolds
        /\ loc[t].retErr = "InvalidLicenseSignature"
        /\ loc[t].retLic = NilLicense

\* C9: for a token that verifies and whose expires-at is in the past,
\* Validate builds a License with Valid = false, commits it with the token,
\* writes it to the cache file (there is none when the cache is disabled),
\* starts no auto-renewal and returns it with a nil error.
C9_ExpiredIsCommitted ==
    [][ \A p \in Procs :
          /\ VerifySucceeds(p) /\ loc'[p].token.exp # 0 /\ now > loc'[p].token.exp
                => /\ pc'[p] = "v_commit"
                   /\ loc'[p].lic = MkLicense(FALSE, loc'[p].token.iat, loc'[p].token.exp,
                                              loc'[p].token.url, loc'[p].token)
          /\ pc[p] = "v_commit" /\ pc'[p] # "v_commit" /\ ~loc[p].lic.Valid
                => /\ license' = loc[p].lic
                   /\ signedToken' = loc[p].token
                   /\ pc'[p] = "v_save"
          /\ ValidateReturns(p) /\ ~loc[p].lic.Valid
                => /\ ~cfg.disableCache => cache' = jsonMarshal(loc[p].lic)
                   /\ cfg.disableCache => cache' = cache
                   /\ NoneStarted(p)
                   /\ ValidateReturned(p, loc[p].lic, "nil") ]_vars

\* Validate of an expired token has returned: the License with Valid =
\* false is the stored one and the one in the cache file.
C9_Witness ==
    \E t \in Hosts :
        /\ pc[t] = "done"
        /\ loc[t].op = "Validate"
        /\ loc[t].retErr = "nil"
        /\ loc[t].retLic # NilLicense
        /\ ~loc[t].retLic.Valid
        /\ loc[t].retLic.ExpiresAt # 0
        /\ now > loc[t].retLic.ExpiresAt
        /\ loc[t].retLic.IssuedAt <= now
        /\ license = loc[t].retLic
        /\ signedToken = loc[t].token
        /\ cache = jsonMarshal(loc[t].retLic)
        /\ \A a \in Autos : pc[a] = "free"

\* C10: for a token that verifies, Validate goes on to return a nil error
\* and a License whose Valid is true exactly when (issued-at is unset or
\* now is not before it) and (expires-at is unset or now is not after it).
C10_ValidIffTemporal ==
    [][ \A p \in Procs :
          /\ VerifySucceeds(p)
                => /\ pc'[p] = "v_commit"
                   /\ loc'[p].lic.Valid
                         <=> /\ loc'[p].token.iat = 0 \/ now >= loc'[p].token.iat
                             /\ loc'[p].token.exp = 0 \/ now <= loc'[p].token.exp
          /\ ValidateReturns(p) => ValidateReturned(p, loc[p].lic, "nil") ]_vars

\* Validate has returned a License with Valid = true on the very day of
\* its issued-at and of its expires-at.
C10_Witness ==
    \E t \in Hosts :
        /\ pc[t] = "done"
        /\ loc[t].op = "Validate"
        /\ loc[t].retErr = "nil"
        /\ loc[t].retLic # NilLicense
        /\ loc[t].retLic.Valid
        /\ loc[t].retLic.SignedToken = loc[t].token
        /\ loc[t].retLic.IssuedAt = now
        /\ loc[t].retLic.ExpiresAt = now

----------------------------------------------------------------------------
(* Properties of token resolution, the cache and StartHeartbeat *)

\* The token Validate(arg) works on, by priority: the argument, the
\* stored token, the configured token.
ResolvedToken(arg) ==
    IF arg # EmptyToken THEN arg
    ELSE IF signedToken # EmptyToken THEN signedToken
    ELSE cfg.token

\* C11: on an open client Validate resolves its token in the order
\* argument, stored token, configured token; with none it returns
\* ErrNoToken, with a token but no public key ErrNoPublicKey, and otherwise
\* it is the resolved token that is verified.
C11_TokenPriority ==
    [][ \A p \in Procs :
          ValidateChecks(p) /\ ~closed
             => LET tok == ResolvedToken(loc'[p].arg) IN
                /\ tok = EmptyToken => ValidateReturned(p, NilLicense, "ErrNoToken")
                /\ tok # EmptyToken /\ cfg.publicKey = "nil"
                      => ValidateReturned(p, NilLicense, "ErrNoPublicKey")
                /\ tok # EmptyToken /\ cfg.publicKey # "nil"
                      => /\ loc'[p].token = tok
                         /\ VerifiesUnder(cfg.publicKey, tok) <=> pc'[p] = "v_commit"
                         /\ pc'[p] = "v_commit" => loc'[p].lic.SignedToken = tok ]_vars

\* After a renewal stored a new token, Validate() with no argument has
\* returned the License of the renewed token, not of the configured one.
C11_Witness ==
    \E t \in Hosts :
        /\ pc[t] = "done"
        /\ loc[t].op = "Validate"
        /\ loc[t].arg = EmptyToken
        /\ cfg.token # EmptyToken
        /\ loc[t].token # cfg.token
        /\ loc[t].retErr = "nil"
        /\ loc[t].retLic.SignedToken = loc[t].token
        /\ signedToken = loc[t].token


\* The license Validate built from a token that verified under the
\* client's key, with both temporal checks evaluated on some day up to now.
BuiltFromVerified(lic) ==
    /\ lic # NilLicense
    /\ VerifiesUnder(cfg.publicKey, lic.SignedToken)
    /\ lic.IssuedAt = lic.SignedToken.iat
    /\ lic.ExpiresAt = lic.SignedToken.exp
    /\ lic.ServerURL = lic.SignedToken.url
    /\ \E t \in 1..now : lic.Valid <=> PassesTemporal(lic, t)

\* C12: the cache file changes only where Validate saves, and what it saves
\* is the marshalled License built from a token whose signature verified
\* and whose temporal checks were both evaluated; a Validate whose verifier
\* failed, ValidateFromCache and the fallback of Renew leave the file as it
\* is.
C12_CacheWrites ==
    [][ /\ \/ cache' = cache
           \/ \E p \in Procs :
                 /\ ValidateReturns(p)
                 /\ BuiltFromVerified(loc[p].lic)
                 /\ cache' = jsonMarshal(loc[p].lic)
        /\ \A p \in Procs :
              /\ ValidateReturns(p) /\ ~cfg.disableCache
                    => BuiltFromVerified(loc[p].lic) /\ cache' = jsonMarshal(loc[p].lic)
              /\ VerifyFails(p) => cache' = cache
              /\ RenewFallbackStep(p) => cache' = cache
              /\ (pc[p] = "idle" /\ loc'[p].op = "ValidateFromCache") => cache' = cache ]_vars

\* Validate has saved the License it built from a verified token, and the
\* cache file holds it.
C12_Witness ==
    \E t \in Hosts :
       /\ pc[t] = "done"
       /\ loc[t].op = "Validate"
       /\ loc[t].retErr = "nil"
       /\ CacheHolds
       /\ cache = jsonMarshal(loc[t].retLic)
       /\ loc[t].retLic.SignedToken = loc[t].token
       /\ loc[t].token = TLong
       /\ BuiltFromVerified(loc[t].retLic)


\* The error StartHeartbeat returns once it holds hb.mu, from the state
\* of the client: "nil" when it starts a loop.
StartError ==
    IF hb.running THEN "ErrAlreadyRunning"
    ELSE IF cfg.serverURL = "" /\ (license = NilLicense \/ license.ServerURL = "")
    THEN "ErrNoServerURL"
    ELSE IF signedToken = EmptyToken /\ cfg.token = EmptyToken THEN "ErrNoToken"
    ELSE "nil"

\* C13: StartHeartbeat called on a closed client returns ErrClientClosed;
\* once it holds the heartbeat lock it returns ErrAlreadyRunning when a
\* loop runs, ErrNoServerURL when neither the configuration nor the
\* committed License has a server URL, ErrNoToken when neither the stored
\* nor the configured token is set; whenever it fails no loop is launched
\* and the running flag, the interval and the stop/done channels stay as
\* they are.
C13_StartHeartbeatErrors ==
    [][ \A p \in Hosts :
          /\ (pc[p] = "idle" /\ loc'[p].op = "StartHeartbeat" /\ closed)
                => /\ pc'[p] = "done"
                   /\ loc'[p].retErr = "ErrClientClosed"
                   /\ UNCHANGED <<hb, loops, stopClosed, doneClosed>>
          /\ (pc[p] = "s_lock" /\ pc'[p] # "s_lock")
                => /\ pc'[p] = "done"
                   /\ loc'[p].retErr = StartError
                   /\ StartError # "nil"
                         => UNCHANGED <<hb, loops, stopClosed, doneClosed>>
                   /\ StartError = "nil"
                         => /\ hb'.running
                            /\ LiveLoops' = LiveLoops \cup {hb'.gen}
                            /\ hb'.gen \notin LiveLoops ]_vars

\* StartHeartbeat has returned ErrNoToken on a client with a server URL and
\* no token, and no loop exists.
C13_Witness ==
    \E t \in Hosts :
       /\ pc[t] = "done"
       /\ loc[t].op = "StartHeartbeat"
       /\ loc[t].retErr = "ErrNoToken"
       /\ resolveServerURL # ""
       /\ signedToken = EmptyToken
       /\ cfg.token = EmptyToken
       /\ ~hb.running
       /\ LiveLoops = {}


----------------------------------------------------------------------------
(* Properties of ValidateFromCache and of Renew *)

\* The step in which p calls ValidateFromCache (it returns in that step).
FromCacheStep(p) == pc[p] = "idle" /\ pc'[p] = "done" /\ loc'[p].op = "ValidateFromCache"

\* C14: ValidateFromCache on an open client with a cache file makes the
\* stored License the cached one field by field (Valid as cached, nothing
\* verified or re-checked), stores its token, and returns it with a nil
\* error; with no cache file or on a closed client it returns an error and
\* no License, and the stored License and token are unchanged.
C14_FromCacheVerbatim ==
    [][ \A p \in Hosts :
          FromCacheStep(p)
             => IF ~closed /\ CacheHolds
                THEN /\ license' # NilLicense
                     /\ license'.Valid = cache.valid
                     /\ license'.IssuedAt = cache.issued_at
                     /\ license'.ExpiresAt = cache.expires_at
                     /\ license'.ServerURL = cache.server_url
                     /\ license'.SignedToken = cache.signed_token
                     /\ signedToken' = cache.signed_token
                     /\ loc'[p].retLic = license'
                     /\ loc'[p].retErr = "nil"
                ELSE /\ loc'[p].retErr # "nil"
                     /\ loc'[p].retLic = NilLicense
                     /\ UNCHANGED <<license, signedToken>> ]_vars

\* ValidateFromCache has committed and returned a cached License that says
\* Valid although it has expired by now.
C14_Witness ==
    \E t \in Hosts :
       /\ pc[t] = "done"
       /\ loc[t].op = "ValidateFromCache"
       /\ loc[t].retErr = "nil"
       /\ loc[t].retLic = license
       /\ license = jsonUnmarshal(cache)
       /\ license.Valid
       /\ ~PassesTemporal(license, now)
       /\ signedToken = license.SignedToken


\* The step in which postJSON returns to p's Renew or RenewResult.
ResponseStep(p) == pc[p] = "r_http" /\ pc'[p] # "r_http"

\* C15: when the renewal request fails or the status is not 200, Renew
\* returns in that step no License and a ValidationError with code
\* RenewalFailed that wraps the error of the request when there is one;
\* the stored License, the stored token, the cache and the event channel
\* are as before.
C15_RenewalFailed ==
    [][ \A p \in Procs :
          ResponseStep(p) /\ (loc'[p].herr # "nil" \/ loc'[p].status # StatusOK)
             => /\ pc'[p] = AfterReturn(loc[p])
                /\ loc'[p].retLic = NilLicense
                /\ loc'[p].retRes = EmptyToken
                /\ loc'[p].retErr = "RenewalFailed"
                /\ loc'[p].retCause = loc'[p].herr
                /\ UNCHANGED <<license, signedToken, cache, Events>> ]_vars

\* Renew has returned RenewalFailed for a failed transport on a client that
\* holds a committed License.
C15_Witness ==
    \E t \in Hosts :
       /\ pc[t] = "done"
       /\ loc[t].op = "Renew"
       /\ loc[t].retErr = "RenewalFailed"
       /\ loc[t].retCause = "transport"
       /\ loc[t].retLic = NilLicense
       /\ license # NilLicense
       /\ Events = << >>


\* The step in which p's Renew returns after the branch of renewal.go 52-56:
\* the Validate of the new token returned a nil error and a License that
\* says Valid.
RenewedStep(p) ==
    /\ pc[p] = "r_after"
    /\ pc'[p] # "r_after"
    /\ loc[p].op = "Renew"
    /\ loc[p].result # EmptyToken
    /\ loc[p].verr = "nil"
    /\ loc[p].vlic.Valid

\* C16: when the answer is 200 with a new token and its re-validation
\* succeeds with Valid = true, Renew emits one LicenseRenewed event carrying
\* the answer, returns the License built from the new token, and the client
\* holds that License and the new token.
C16_RenewedLicense ==
    [][ \A p \in Hosts :
          RenewedStep(p)
             => /\ Events' = Append(Events, Event("LicenseRenewed", loc[p].result))
                /\ loc'[p].retErr = "nil"
                /\ loc'[p].retLic.SignedToken = loc[p].result
                /\ license' = loc'[p].retLic
                /\ signedToken' = loc[p].result ]_vars


\* The step in which p's Renew returns after a 200 answer with a new token
\* that was not re-validated to a valid License: Validate was not called
\* (no public key), returned an error, or returned a License that says
\* Valid = false.
NotRevalidatedStep(p) ==
    /\ pc[p] = "r_after"
    /\ pc'[p] # "r_after"
    /\ loc[p].op \in {"Renew", "AutoRenew"}
    /\ loc[p].result # EmptyToken
    /\ \/ cfg.publicKey = "nil"
       \/ loc[p].verr # "nil"
       \/ ~loc[p].vlic.Valid

\* C17: in that case Renew returns, with a nil error, a License whose only
\* populated field is the new token (Valid = false), the event channel is
\* as before, and the stored token is the new token, which is the token
\* the next Renew, Validate() or StartHeartbeat resolves.
C17_RenewFallback ==
    [][ \A p \in Procs :
          NotRevalidatedStep(p)
             => /\ loc'[p].retErr = "nil"
                /\ loc'[p].retLic # NilLicense
                /\ loc'[p].retLic.SignedToken = loc[p].result
                /\ ~loc'[p].retLic.Valid
                /\ loc'[p].retLic.IssuedAt = 0
                /\ loc'[p].retLic.ExpiresAt = 0
                /\ loc'[p].retLic.ServerURL = ""
                /\ Events' = Events
                /\ signedToken' = loc[p].result
                /\ ResolvedToken(EmptyToken)' = loc[p].result
                /\ renewCheck'.token = loc[p].result ]_vars

\* Renew on a client without a public key has returned the minimal License
\* of the new token, which is now the stored token; the stored License is
\* another one and no event was emitted.
C17_Witness ==
    \E t \in Hosts :
       /\ pc[t] = "done"
       /\ loc[t].op = "Renew"
       /\ loc[t].retErr = "nil"
       /\ cfg.publicKey = "nil"
       /\ loc[t].retLic # NilLicense
       /\ loc[t].retLic.SignedToken = loc[t].result
       /\ ~loc[t].retLic.Valid
       /\ signedToken = loc[t].result
       /\ loc[t].result # loc[t].sent
       /\ license # loc[t].retLic
       /\ Events = << >>


\* What lines 51-68 of Renew leave in the client when they run with the
\* locals l: the stored License, the stored token and the event channel.
RenewEffect(l) ==
    LET revalidated == l.verr = "nil" /\ l.vlic.Valid
    IN  [license |-> license,
         signedToken |-> IF ~revalidated /\ l.result # EmptyToken THEN l.result ELSE signedToken,
         Events |-> IF revalidated /\ Len(Events) < eventsChannelSize
                    THEN Append(Events, Event("LicenseRenewed", l.result))
                    ELSE Events]

\* The step in which p returns from Renew or RenewResult after a 200 answer.
AfterStep(p, op) == pc[p] = "r_after" /\ pc'[p] # "r_after" /\ loc[p].op = op

\* C18, as the specification states it: from the same state and with the
\* same answer RenewResult leaves the stored License, the stored token and
\* the events that Renew leaves.
C18_SameSideEffects ==
    [][ \A p \in Hosts :
          AfterStep(p, "Renew") \/ AfterStep(p, "RenewResult")
             => /\ license' = RenewEffect(loc[p]).license
                /\ signedToken' = RenewEffect(loc[p]).signedToken
                /\ Events' = RenewEffect(loc[p]).Events ]_vars

\* C18, amended: RenewResult leaves the stored License and the events that
\* Renew leaves, and the same stored token whenever the new token was
\* re-validated to a valid License; otherwise Renew stores the new token
\* and RenewResult leaves the stored token as it was.
C18_SameButFallbackStore ==
    [][ \A p \in Hosts :
          /\ AfterStep(p, "Renew")
                => /\ license' = RenewEffect(loc[p]).license
                   /\ signedToken' = RenewEffect(loc[p]).signedToken
                   /\ Events' = RenewEffect(loc[p]).Events
          /\ AfterStep(p, "RenewResult")
                => /\ license' = RenewEffect(loc[p]).license
                   /\ Events' = RenewEffect(loc[p]).Events
                   /\ signedToken' = signedToken
                   /\ (loc[p].verr = "nil" /\ loc[p].vlic.Valid)
                         => signedToken' = RenewEffect(loc[p]).signedToken
                   /\ loc'[p].retRes = loc[p].result
                   /\ loc'[p].retLic = NilLicense ]_vars

\* RenewResult has returned a new token that it did not store, on a client
\* without a public key.
C18_Witness ==
    \E t \in Hosts :
       /\ pc[t] = "done"
       /\ loc[t].op = "RenewResult"
       /\ loc[t].retErr = "nil"
       /\ loc[t].retRes # EmptyToken
       /\ signedToken # loc[t].retRes
       /\ signedToken = loc[t].sent
       /\ cfg.publicKey = "nil"


----------------------------------------------------------------------------
(* Properties of the background renewal *)

\* The launch condition of the background renewal for the License lic.
LaunchDue(lic) ==
    /\ ~cfg.disableAutoRenew
    /\ ~cfg.offlineOnly
    /\ lic.Valid
    /\ lic.ExpiresAt # 0
    /\ lic.ExpiresAt - now <= (IF cfg.renewBefore = 0 THEN defaultRenewBefore
                                                    ELSE cfg.renewBefore)

\* In this step of p one background renewal other than p was launched and
\* has not run yet.
OneLaunched(p) ==
    /\ spawns' = spawns + 1
    /\ \E a \in Autos \ {p} :
          /\ pc[a] = "free"
          /\ pc'[a] = "r_start"
          /\ \A b \in Autos \ {a, p} : pc'[b] = pc[b]

\* C19: the step in which a Validate that verified its token returns
\* launches a background renewal exactly when auto-renew is not disabled,
\* the client is not offline-only, the License is Valid, has an expiry and
\* the time left is at or below the threshold (the configured one, or
\* defaultRenewBefore); Validate returns its License in that same step,
\* before the renewal has run; no other step launches one.
C19_AutoRenewLaunch ==
    [][ /\ \A p \in Procs :
              ValidateReturns(p)
                 => /\ ValidateReturned(p, loc[p].lic, "nil")
                    /\ LaunchDue(loc[p].lic) <=> OneLaunched(p)
                    /\ ~LaunchDue(loc[p].lic)
                          => spawns' = spawns /\ \A a \in Autos \ {p} : pc'[a] = pc[a]
        /\ spawns' # spawns => \E p \in Procs : ValidateReturns(p) ]_vars

\* Validate has returned a License with exactly the threshold left, and the
\* renewal it launched has not started its request.
C19_Witness ==
    \E t \in Hosts :
       /\ pc[t] = "done"
       /\ loc[t].op = "Validate"
       /\ loc[t].retErr = "nil"
       /\ loc[t].retLic.Valid
       /\ cfg.renewBefore # 0
       /\ loc[t].retLic.ExpiresAt - now = cfg.renewBefore
       /\ \E a \in Autos : pc[a] = "r_start"
       /\ spawns = 1


\* The background renewals in flight: the goroutines maybeAutoRenew started
\* that have not ended.
InFlight == {a \in Autos : pc[a] # "free"}

\* C20: at any time at most one background renewal is in flight.
C20_AtMostOneAutoRenew == Cardinality(InFlight) <= 1


----------------------------------------------------------------------------
(* Properties of the heartbeat events, Checkout and the event channel *)

\* The step in which loop g's sendHeartbeat gets what postJSON returns.
SendStep(g) ==
    /\ loops[g].pc \in {"l_send0", "l_send"}
    /\ loops'[g].pc \notin {"l_send0", "l_send"}

\* The one attempt to emit e: e is enqueued, dropped because the channel is
\* full, or the send hits the channel Close has closed.
AttemptsToEmit(e) ==
    \/ /\ ~eventsClosed
       /\ Len(Events) < eventsChannelSize
       /\ Events' = Append(Events, e)
    \/ /\ ~eventsClosed
       /\ Len(Events) >= eventsChannelSize
       /\ Events' = Events
    \/ /\ eventsClosed
       /\ Events' = Events
       /\ panicked' # "none"

\* C21: every heartbeat send attempts to emit exactly one event, chosen by
\* what postJSON returned: HeartbeatError for an error, HeartbeatOK with the
\* decoded status for 200, HeartbeatRejected for 429, HeartbeatError for
\* any other status; a 429 answer gives no HeartbeatError.
C21_HeartbeatEvent ==
    [][ \A g \in 1..MaxStarts :
          SendStep(g)
             => LET r == loops'[g].resp IN
                /\ r.err => AttemptsToEmit(Event("HeartbeatError", 0))
                /\ ~r.err /\ r.status = StatusOK
                      => AttemptsToEmit(Event("HeartbeatOK", r.interval))
                /\ ~r.err /\ r.status = StatusTooManyRequests
                      => /\ AttemptsToEmit(Event("HeartbeatRejected", r.interval))
                         /\ Len(Events') <= Len(Events) + 1
                         /\ \A k \in Len(Events) + 1 .. Len(Events') :
                               Events'[k].Type # "HeartbeatError"
                /\ ~r.err /\ r.status \notin {StatusOK, StatusTooManyRequests}
                      => AttemptsToEmit(Event("HeartbeatError", r.status)) ]_vars

\* A heartbeat answered with 429 has put HeartbeatRejected, and no
\* HeartbeatError, in the channel.
C21_Witness ==
    \E g \in 1..MaxStarts :
       /\ loops[g].pc \notin {"none", "l_send0", "l_send"}
       /\ ~loops[g].resp.err
       /\ loops[g].resp.status = StatusTooManyRequests
       /\ Len(Events) > 0
       /\ Events[Len(Events)].Type = "HeartbeatRejected"
       /\ \A k \in 1..Len(Events) : Events[k].Type # "HeartbeatError"


\* The loop p's Checkout found running and stopped (0 when none ran) has
\* exited.
StoppedLoopExited(p) == loc[p].gen # 0 => loops[loc[p].gen].pc = "exited"

\* C22: Checkout reaches its request only after the loop it found running
\* has exited; without a server URL or a token it returns ErrNoServerURL or
\* ErrNoToken and sends nothing; when deleteJSON returns 200 without error
\* it attempts to emit SeatReleased and returns nil; when it returns an
\* error or another status Checkout returns ServerUnreachable and the event
\* channel is as before; at every return the loop Checkout stopped is still
\* exited.
C22_Checkout ==
    [][ \A p \in Hosts :
          /\ (pc[p] = "c_req" /\ pc'[p] # "c_req")
                => /\ StoppedLoopExited(p)
                   /\ Events' = Events
                   /\ IF cfg.serverURL = "" /\ (license = NilLicense \/ license.ServerURL = "")
                      THEN pc'[p] = "done" /\ loc'[p].retErr = "ErrNoServerURL"
                      ELSE IF signedToken = EmptyToken
                      THEN pc'[p] = "done" /\ loc'[p].retErr = "ErrNoToken"
                      ELSE pc'[p] = "c_http" /\ loc'[p].sent = signedToken
          /\ (pc[p] = "c_http" /\ pc'[p] # "c_http")
                => /\ StoppedLoopExited(p)
                   /\ pc'[p] = "done"
                   /\ IF loc'[p].herr = "nil" /\ loc'[p].status = StatusOK
                      THEN /\ AttemptsToEmit(Event("SeatReleased", 0))
                           /\ loc'[p].retErr = "nil"
                      ELSE /\ loc'[p].retErr = "ServerUnreachable"
                           /\ Events' = Events
          /\ (loc'[p].op = "Checkout" /\ pc'[p] = "done" /\ pc[p] # "done" /\ loc[p].gen # 0)
                => loops'[loc[p].gen].pc = "exited" ]_vars

\* Checkout has stopped a running loop, got 200 and returned nil with
\* SeatReleased as the last event in the channel.
C22_Witness ==
    \E t \in Hosts :
       /\ pc[t] = "done"
       /\ loc[t].op = "Checkout"
       /\ loc[t].retErr = "nil"
       /\ loc[t].gen # 0
       /\ loops[loc[t].gen].pc = "exited"
       /\ Len(Events) > 0
       /\ Events[Len(Events)].Type = "SeatReleased"


\* s is t with some elements left out: the elements of s are elements of t
\* at increasing positions.
RECURSIVE IsSubSeq(_, _)
IsSubSeq(s, t) ==
    IF s = << >> THEN TRUE
    ELSE IF t = << >> THEN FALSE
    ELSE IF Head(s) = Head(t) THEN IsSubSeq(Tail(s), Tail(t))
    ELSE IsSubSeq(s, Tail(t))

\* Every producer that stands before its emitEvent can take that step,
\* whatever the channel holds.
ProducersCanStep ==
    /\ \A g \in 1..MaxStarts :
          loops[g].pc \in {"l_send0", "l_send"} => ENABLED LoopSend(g)
    /\ \A p \in Procs :
          pc[p] = "c_http" => ENABLED CheckoutResponse(p)

\* C23: emitEvent never blocks: a producer that stands before it can step;
\* the event is enqueued when the channel holds fewer than
\* eventsChannelSize events and dropped otherwise; the channel never holds
\* more than eventsChannelSize events; what the application has received,
\* followed by what the channel holds, is the emitted events in their
\* order with the dropped ones left out, each at most once.
C23_NonBlockingEvents ==
    /\ [](/\ Len(Events) <= eventsChannelSize
          /\ IsSubSeq(received \o Events, emitted)
          /\ Alive => ProducersCanStep)
    /\ [][ /\ emitted' # emitted
              => /\ Len(emitted') = Len(emitted) + 1
                 /\ received' = received
                 /\ Events' = IF Len(Events) < eventsChannelSize
                              THEN Append(Events, emitted'[Len(emitted')])
                              ELSE Events
           /\ emitted' = emitted /\ Events' # Events
              => /\ Events # << >>
                 /\ Events' = Tail(Events)
                 /\ received' = Append(received, Head(Events)) ]_vars

\* An event was dropped on a full channel, and the application has
\* received an event emitted before it.
C23_Witness ==
    /\ Len(Events) = eventsChannelSize
    /\ Len(received) + Len(Events) < Len(emitted)
    /\ received # << >>


----------------------------------------------------------------------------
(* Properties of the heartbeat's token, the server URL and the interval *)

\* The step in which loop g starts a heartbeat request: the initial one
\* when the loop is launched, a later one when its ticker fires.
RequestStep(g) ==
    /\ loops[g].pc \in {"none", "l_select"}
    /\ loops'[g].pc \in {"l_send0", "l_send"}

\* C24: every heartbeat request carries the token that is stored in the
\* client when the request starts, so a token committed while the loop
\* runs is the token of the following heartbeats.
C24_HeartbeatCarriesStoredToken ==
    [][ \A g \in 1..MaxStarts :
          RequestStep(g) => loops'[g].token = signedToken ]_vars


NewInterval(r) == ~r.err /\ r.status = StatusOK /\ r.interval > 0

\* The step in which loop g goes to wait on its timer after a heartbeat.
WaitStep(g) ==
    /\ loops[g].pc \in {"l_send0", "l_send", "l_int0", "l_int", "l_lock"}
    /\ loops'[g].pc = "l_select"

\* C26: when loop g goes to wait after a heartbeat answered 200 with a
\* positive heartbeat_interval N, the scheduler's interval is N and the
\* wait lasts N, for the initial heartbeat as well; after any other answer
\* the interval is what it was and the wait lasts that long; the step that
\* receives such an answer leaves the interval unchanged.
C26_IntervalAdopted ==
    [][ \A g \in 1..MaxStarts :
          /\ WaitStep(g)
                => IF NewInterval(loops'[g].resp)
                   THEN /\ hb'.interval = loops'[g].resp.interval
                        /\ loops'[g].period = loops'[g].resp.interval
                   ELSE /\ hb'.interval = hb.interval
                        /\ loops'[g].period = hb.interval
          /\ SendStep(g) /\ ~NewInterval(loops'[g].resp) => hb'.interval = hb.interval
          /\ SendStep(g) /\ NewInterval(loops'[g].resp)
                => /\ loops'[g].pc \in {"l_int0", "l_int"}
                   /\ loops'[g].newInterval = loops'[g].resp.interval ]_vars

\* A heartbeat sent on the timer was answered 200 with a new interval, and
\* the loop now waits that long.
C26_Witness ==
    \E g \in 1..MaxStarts :
       /\ loops[g].pc = "l_select"
       /\ ticks > 0
       /\ NewInterval(loops[g].resp)
       /\ loops[g].period = loops[g].resp.interval
       /\ hb.interval = loops[g].resp.interval
       /\ hb.interval # defaultHeartbeatInterval


----------------------------------------------------------------------------
(* The chain of background renewals *)

\* C27: after the host's single Validate the background renewals come to
\* an end: from some time on no renewal goroutine is in flight, so no
\* further renewal request is sent.
C27_ChainTerminates == <>[](InFlight = {})


----------------------------------------------------------------------------
(* The LicenseRenewed event and the onRenew callback *)

\* The step in which p's Renew or RenewResult emits LicenseRenewed.
RenewEmitStep(p) ==
    /\ pc[p] = "r_after"
    /\ pc'[p] # "r_after"
    /\ emitted' # emitted

\* C28: when Renew or RenewResult emits LicenseRenewed, the stored token is
\* the signed token of the server's answer, the committed License was built
\* from it, and so was the License that Renew returns.
C28_RenewedEventToken ==
    [][ \A p \in Procs :
          RenewEmitStep(p)
             => /\ signedToken' = loc[p].result
                /\ license' # NilLicense
                /\ license'.SignedToken = loc[p].result
                /\ loc[p].op # "RenewResult"
                      => loc'[p].retLic.SignedToken = loc[p].result ]_vars


\* C29: whenever the onRenew callback runs, the renewal returned no error
\* and the License passed to it says Valid and was built by re-validating
\* the token of the server's answer; it is never the License of the
\* fallback path, which holds the new token and nothing else.
C29_OnRenewOnlyRenewed ==
    \A a \in Autos :
       pc[a] = "a_onrenew"
          => /\ loc[a].retErr = "nil"
             /\ loc[a].retLic # NilLicense
             /\ loc[a].retLic.Valid
             /\ loc[a].retLic.SignedToken = loc[a].result
             /\ BuiltFromVerified(loc[a].retLic)


----------------------------------------------------------------------------
(* The cache after overlapping Validate calls *)

\* Every Validate call has returned and at least one has committed.
ValidatesReturned ==
    /\ \A t \in Hosts : pc[t] \in {"idle", "done"}
    /\ license # NilLicense

\* C30: once every Validate call has returned, the License in the cache
\* file is the License committed in the client.
C30_CacheIsCommitted ==
    ValidatesReturned => cacheLoad(cfg.disableCache, cache).lic = license


----------------------------------------------------------------------------
(* Close calls that overlap *)

\* C31: for any number of Close calls, one after another or interleaved,
\* the Events channel is closed once (a call that is about to close it
\* never finds it closed), the heartbeat is stopped when Close closes the
\* channel and when it returns, and a call that has returned returned nil
\* and left the closed flag true and the channel closed.
C31_CloseIdempotent ==
    \A p \in Hosts :
       /\ pc[p] = "cl_close" => ~eventsClosed /\ ~hb.running
       /\ pc[p] = "done" /\ loc[p].op = "Close"
             => /\ loc[p].retErr = "nil"
                /\ closed
                /\ eventsClosed
                /\ ~hb.running

============================================================================
